---- MODULE Spec2Model ----
(***************************************************************************)
(* The streaming chat client of adk-graph-ui (src/unnamed/part_000, the    *)
(* SSE variant of static/js/main.js): ApiService.sendMessageStreaming, the *)
(* three callbacks AppController.sendMessage hands to it, and the session  *)
(* life-cycle handlers that run on the same event loop.                    *)
(*                                                                         *)
(* One action is one run-to-completion step of the JavaScript event loop:  *)
(* a handler from its start (or from the await it resumes at) to its next  *)
(* await or its end.  Text is a sequence of tokens (one-character strings  *)
(* and a few JSON literals), timestamps are left out.                      *)
(***************************************************************************)
EXTENDS Integers, Sequences, FiniteSets, TLC

VARIABLES
    currentAgent,      \* AppState.currentAgent
    currentSessionId,  \* AppState.currentSessionId
    sessions,          \* AppState.sessions: session id -> [messages]
    sessionList,       \* the session items rendered in #sessionsContainer
    sendBtnDisabled,   \* #sendBtn.disabled
    inputDisabled,     \* #messageInput.disabled
    deleteBtnShown,    \* #deleteSessionBtn is displayed
    container,         \* children of #messagesContainer, in order
    nextDiv,           \* identity of the next element created
    alerts,            \* number of alert() notifications shown so far
    pending,           \* requests in flight of the session handlers
    turn,              \* per sendMessage call: its closure and its position
    wire,              \* characters of a record the server has not sent yet
    userActions,       \* number of user actions so far
    probe,             \* an input handed to AnalyticsParser, and what it returned
    clock,             \* Date.now()
    timers,            \* the setTimeout callbacks not yet run, in the order they are due
    plots              \* the calls of Plotly.newPlot so far

vars == <<currentAgent, currentSessionId, sessions, sessionList, sendBtnDisabled,
          inputDisabled, deleteBtnShown, container, nextDiv, alerts, pending,
          turn, wire, userActions, probe, clock, timers, plots>>

----------------------------------------------------------------------------
(* Bounds *)

MaxTurns == 2
MaxParts == 4
MaxEventParts == 2
MaxRecords == 3
MaxUserActions == 4
MaxAppRecords == 2
MaxTurnEvents == 3
MaxProbeEvents == 2
MaxRenderEvents == 2
MaxClock == 1
MaxPieces == 4
MaxHistory == 2
MaxSegments == 3

TurnIds == 1..MaxTurns

----------------------------------------------------------------------------
(* Values *)

NULL == "null"
NoDiv == 0

\* the characters String.prototype.trim strips
IsSpace(tok) == tok \in {" ", "\t", "\r", "\n"}

\* a test that takes white space for content
Untrimmed(s) == s

RECURSIVE TrimLeft(_)
TrimLeft(s) == IF s # <<>> /\ IsSpace(Head(s)) THEN TrimLeft(Tail(s)) ELSE s

RECURSIVE TrimRight(_)
TrimRight(s) ==
    IF s # <<>> /\ IsSpace(s[Len(s)]) THEN TrimRight(SubSeq(s, 1, Len(s) - 1)) ELSE s

\* String.prototype.trim
Trim(s) == TrimRight(TrimLeft(s))

\* Utils.formatMessageContent: marked.parse, an uninterpreted function of its input
FormatMessageContent(content) == [fmt |-> "md", src |-> content]

\* markup written as a template literal, not passed through marked
RawHtml(content) == [fmt |-> "raw", src |-> content]

TextPart(text) == [tag |-> "text", text |-> text]
FunctionCallPart == [tag |-> "functionCall", text |-> <<>>]
FunctionResponsePart == [tag |-> "functionResponse", text |-> <<>>]

\* An event of the stream: event.content.parts and the three places an
\* analytics_output may sit in, each holding the name of a candidate value
\* ("undefined" when the field is missing).
Event(parts, actionsDelta, stateDelta, direct) ==
    [parts |-> parts, actionsStateDelta |-> actionsDelta, stateDelta |-> stateDelta,
     analytics_output |-> direct]

Undefined == "undefined"

\* an event that carries content parts only
ContentEvent(parts) == Event(parts, Undefined, Undefined, Undefined)

\* an event whose actions.stateDelta.analytics_output is the candidate `cand`
AnalyticsEvent(cand) == Event(<<>>, cand, Undefined, Undefined)

\* the parts of the events of a list, in order
RECURSIVE PartsOf(_)
PartsOf(fullResponse) ==
    IF fullResponse = <<>> THEN <<>>
    ELSE Head(fullResponse).parts \o PartsOf(Tail(fullResponse))

IsText(part) == part.tag = "text"
IsTool(part) == part.tag \in {"functionCall", "functionResponse"}

\* the in-order concatenation of the text of the text parts
RECURSIVE ConcatText(_)
ConcatText(parts) ==
    IF parts = <<>> THEN <<>>
    ELSE (IF IsText(Head(parts)) THEN Head(parts).text ELSE <<>>)
         \o ConcatText(Tail(parts))

Node(id, cls, html) == [id |-> id, cls |-> cls, html |-> html]

\* A message of a session.  full_response is the turn whose fullResponse array
\* the message refers to (the array itself stays in the closure), 0 for none.
Message(role, content, fullResponseOf, isAnalytics) ==
    [role |-> role, content |-> content, full_response |-> fullResponseOf,
     isAnalytics |-> isAnalytics]

----------------------------------------------------------------------------
(* Analytics values.  A candidate and a parsed value are named; the tables   *)
(* give what the JSON value of that name is.                                 *)

AbsentField == [t |-> "absent", items |-> <<>>]

\* the number 0: a parsed value that is falsy and not null
Zero == "zero"

\* the truthiness of a parsed value
Truthy(v) == v \notin {NULL, Zero}

\* the truthy parsed values
Payloads ==
    [summary  |-> [obj |-> TRUE, keys |-> {"analysis_summary"},
                   analysis_summary |-> [t |-> "string", items |-> <<"o", "k">>],
                   insights |-> AbsentField, visualization_hints |-> AbsentField,
                   recommendations |-> AbsentField],
     \* {"insights": ["x"]}
     insights |-> [obj |-> TRUE, keys |-> {"insights"},
                   analysis_summary |-> AbsentField,
                   insights |-> [t |-> "array", items |-> <<"x">>],
                   visualization_hints |-> AbsentField,
                   recommendations |-> AbsentField],
     \* {"insights": "n/a"}: insights is a string, not an array
     badshape |-> [obj |-> TRUE, keys |-> {"insights"},
                   analysis_summary |-> AbsentField,
                   insights |-> [t |-> "string", items |-> <<"n", "/", "a">>],
                   visualization_hints |-> AbsentField,
                   recommendations |-> AbsentField],
     \* {"a": 1}
     other    |-> [obj |-> TRUE, keys |-> {"a"},
                   analysis_summary |-> AbsentField, insights |-> AbsentField,
                   visualization_hints |-> AbsentField,
                   recommendations |-> AbsentField],
     \* {"hasOwnProperty": 1, "insights": ["x"]}: hasOwnProperty is not callable
     shadow   |-> [obj |-> TRUE, keys |-> {"hasOwnProperty", "insights"},
                   analysis_summary |-> AbsentField,
                   insights |-> [t |-> "array", items |-> <<"x">>],
                   visualization_hints |-> AbsentField,
                   recommendations |-> AbsentField],
     \* all four fields, two charts
     full     |-> [obj |-> TRUE,
                   keys |-> {"analysis_summary", "insights", "visualization_hints",
                             "recommendations"},
                   analysis_summary |-> [t |-> "string", items |-> <<"o", "k">>],
                   insights |-> [t |-> "array", items |-> <<"x">>],
                   visualization_hints |-> [t |-> "array", items |-> <<"bar", "pie">>],
                   recommendations |-> [t |-> "array", items |-> <<"r">>]],
     \* three charts, the second of a chart_type that is not known
     mixed    |-> [obj |-> TRUE, keys |-> {"visualization_hints"},
                   analysis_summary |-> AbsentField, insights |-> AbsentField,
                   visualization_hints |->
                       [t |-> "array", items |-> <<"bar", "scatter3d", "line">>],
                   recommendations |-> AbsentField],
     \* all four fields, each empty
     empties  |-> [obj |-> TRUE,
                   keys |-> {"analysis_summary", "insights", "visualization_hints",
                             "recommendations"},
                   analysis_summary |-> [t |-> "string", items |-> <<>>],
                   insights |-> [t |-> "array", items |-> <<>>],
                   visualization_hints |-> [t |-> "array", items |-> <<>>],
                   recommendations |-> [t |-> "array", items |-> <<>>]],
     \* the first and the last field only
     ends     |-> [obj |-> TRUE, keys |-> {"analysis_summary", "recommendations"},
                   analysis_summary |-> [t |-> "string", items |-> <<"o", "k">>],
                   insights |-> AbsentField, visualization_hints |-> AbsentField,
                   recommendations |-> [t |-> "array", items |-> <<"r">>]],
     \* {"insights": ["x"], "visualization_hints": "bar"}: the hints are a string
     hintstring |-> [obj |-> TRUE, keys |-> {"insights", "visualization_hints"},
                   analysis_summary |-> AbsentField,
                   insights |-> [t |-> "array", items |-> <<"x">>],
                   visualization_hints |-> [t |-> "string", items |-> <<"b", "a", "r">>],
                   recommendations |-> AbsentField],
     \* the number 5
     five     |-> [obj |-> FALSE, keys |-> {},
                   analysis_summary |-> AbsentField, insights |-> AbsentField,
                   visualization_hints |-> AbsentField,
                   recommendations |-> AbsentField]]

\* text tokens that are a complete flat JSON object, and the object each denotes
JsonSummary == "{\"analysis_summary\":\"ok\"}"
JsonInsights == "{\"insights\":[\"x\"]}"
JsonOther == "{\"a\":1}"
JsonShadow == "{\"hasOwnProperty\":1,\"insights\":[\"x\"]}"
JsonFull == "{\"analysis_summary\":\"ok\",\"insights\":[\"x\"],\"visualization_hints\":[bar,pie],\"recommendations\":[\"r\"]}"
JsonLiterals ==
    (JsonSummary :> "summary") @@ (JsonInsights :> "insights")
        @@ (JsonOther :> "other") @@ (JsonShadow :> "shadow")
        @@ (JsonFull :> "full")

\* an object text with a comma before its closing brace: not JSON
JsonTrailing == "{\"analysis_summary\":\"ok\",}"

\* the fences of a markdown code block
\* three backquotes followed by json, and three backquotes
FenceOpen == "<fence>json"
FenceClose == "<fence>"

IsJsonLiteral(tok) == tok \in DOMAIN JsonLiterals

\* tokens whose first character is "{", and tokens whose last character is "}"
OpensBrace(tok) == IsJsonLiteral(tok) \/ tok \in {JsonTrailing, "{"}
ClosesBrace(tok) == IsJsonLiteral(tok) \/ tok = JsonTrailing

\* the values an analytics_output field holds on the wire
Candidates ==
    [obj_summary  |-> [t |-> "object", payload |-> "summary", text |-> <<>>],
     obj_badshape |-> [t |-> "object", payload |-> "badshape", text |-> <<>>],
     obj_other    |-> [t |-> "object", payload |-> "other", text |-> <<>>],
     obj_full     |-> [t |-> "object", payload |-> "full", text |-> <<>>],
     obj_mixed    |-> [t |-> "object", payload |-> "mixed", text |-> <<>>],
     obj_empties  |-> [t |-> "object", payload |-> "empties", text |-> <<>>],
     obj_ends     |-> [t |-> "object", payload |-> "ends", text |-> <<>>],
     obj_hintstring |-> [t |-> "object", payload |-> "hintstring", text |-> <<>>],
     str_summary  |-> [t |-> "string", payload |-> NULL, text |-> <<JsonSummary>>],
     str_fenced   |-> [t |-> "string", payload |-> NULL,
                       text |-> <<FenceOpen, "\n", JsonSummary, "\n", FenceClose>>],
     str_trailing |-> [t |-> "string", payload |-> NULL, text |-> <<JsonTrailing>>],
     str_bad      |-> [t |-> "string", payload |-> NULL, text |-> <<"a">>],
     str_five     |-> [t |-> "string", payload |-> NULL, text |-> <<"5">>],
     str_zero     |-> [t |-> "string", payload |-> NULL, text |-> <<"0">>],
     \* the empty string and the number 0: not absent, but falsy
     empty        |-> [t |-> "string", payload |-> NULL, text |-> <<>>],
     zero         |-> [t |-> "number", payload |-> NULL, text |-> <<>>]]

\* whether a candidate is a truthy value
CandidateTruthy(cand) == cand \notin {"empty", "zero"}

RecognizedKeys == {"visualization_hints", "analysis_summary", "insights", "recommendations"}

----------------------------------------------------------------------------
(* AnalyticsParser *)

SyntaxError == "SyntaxError"

\* the result of an expression that throws
Thrown == "thrown"

\* JSON.parse: white space around the value is allowed
JsonParse(text) ==
    LET t == Trim(text)
    IN  IF Len(t) = 1 /\ IsJsonLiteral(t[1]) THEN JsonLiterals[t[1]]
        ELSE IF t = <<"5">> THEN "five"
        ELSE IF t = <<"0">> THEN Zero
        ELSE SyntaxError

\* isAnalyticsData, of a parsed value
IsAnalyticsData(p) ==
    Truthy(p) /\ Payloads[p].obj /\ Payloads[p].keys \cap RecognizedKeys # {}

\* whether isAnalyticsData throws: data.hasOwnProperty is an own property that
\* is not a function
IsAnalyticsDataThrows(p) ==
    Truthy(p) /\ Payloads[p].obj /\ "hasOwnProperty" \in Payloads[p].keys

\* the first fenced block of content from position from on, as <<open, close>>,
\* <<>> for none; the three backquotes that open a later fence close one too
NextFence(content, from) ==
    LET opens == {i \in from..Len(content) : content[i] = FenceOpen}
    IN  IF opens = {} THEN <<>>
        ELSE LET i == CHOOSE k \in opens : \A m \in opens : k <= m
                 closes == {j \in (i + 1)..Len(content) :
                                content[j] \in {FenceClose, FenceOpen}}
             IN  IF closes = {} THEN <<>>
                 ELSE <<i, CHOOSE k \in closes : \A m \in closes : k <= m>>

\* jsonString.replace(/,(\s*[}\]])/g, '$1')
RemoveTrailingCommas(text) ==
    [i \in DOMAIN text |-> IF text[i] = JsonTrailing THEN JsonSummary ELSE text[i]]

\* parseAnalyticsData
ParseAnalyticsData(cand) ==
    LET c == Candidates[cand]
    IN  IF c.t = "object" THEN c.payload
        ELSE IF c.t = "string"
        THEN LET f == NextFence(c.text, 1)
                 captured == IF f = <<>> THEN <<>> ELSE SubSeq(c.text, f[1] + 1, f[2] - 1)
                 jsonString == IF captured # <<>> THEN captured ELSE c.text
                 first == JsonParse(jsonString)
                 second == JsonParse(RemoveTrailingCommas(jsonString))
             IN  IF first # SyntaxError THEN first
                 ELSE IF second # SyntaxError THEN second
                 ELSE NULL
        ELSE NULL

----------------------------------------------------------------------------
(* AnalyticsParser.parseAnalyticsData on a string given character by         *)
(* character: JSON.parse as a parser of objects, arrays, strings and numbers *)

Quote == "\""

\* the result of a parse that throws SyntaxError
NoParse == [ok |-> FALSE, val |-> <<>>, rest |-> <<>>]

\* a string literal at the head of s: up to the next quote
ParseString(s) ==
    LET closes == {i \in 2..Len(s) : s[i] = Quote}
    IN  IF closes = {} THEN NoParse
        ELSE LET j == CHOOSE k \in closes : \A m \in closes : k <= m
             IN  [ok |-> TRUE, val |-> SubSeq(s, 1, j), rest |-> SubSeq(s, j + 1, Len(s))]

\* a number at the head of s: a run of the digit 1
RECURSIVE ParseNumber(_)
ParseNumber(s) ==
    IF Len(s) >= 2 /\ s[2] = "1"
    THEN LET n == ParseNumber(Tail(s)) IN [n EXCEPT !.val = <<"1">> \o @]
    ELSE [ok |-> TRUE, val |-> <<"1">>, rest |-> Tail(s)]

\* A value at the head of s.  val is the value parsed, written without the
\* white space between its tokens: two texts denote the same value when their
\* vals are equal.
RECURSIVE ParseValue(_)
RECURSIVE ParseMembers(_)
RECURSIVE ParseElements(_)
ParseValue(s0) ==
    LET s == TrimLeft(s0)
    IN  IF s = <<>> THEN NoParse
        ELSE IF s[1] = "1" THEN ParseNumber(s)
        ELSE IF s[1] = Quote THEN ParseString(s)
        ELSE IF s[1] = "{"
        THEN LET t == TrimLeft(Tail(s))
             IN  IF t # <<>> /\ t[1] = "}"
                 THEN [ok |-> TRUE, val |-> <<"{", "}">>, rest |-> Tail(t)]
                 ELSE LET m == ParseMembers(t)
                      IN  IF m.ok THEN [m EXCEPT !.val = <<"{">> \o @] ELSE NoParse
        ELSE IF s[1] = "["
        THEN LET t == TrimLeft(Tail(s))
             IN  IF t # <<>> /\ t[1] = "]"
                 THEN [ok |-> TRUE, val |-> <<"[", "]">>, rest |-> Tail(t)]
                 ELSE LET m == ParseElements(t)
                      IN  IF m.ok THEN [m EXCEPT !.val = <<"[">> \o @] ELSE NoParse
        ELSE NoParse

\* the members of an object and its closing brace
ParseMembers(s0) ==
    LET s == TrimLeft(s0)
    IN  IF s = <<>> \/ s[1] # Quote THEN NoParse
        ELSE LET k == ParseString(s)
                 a == TrimLeft(k.rest)
             IN  IF ~k.ok \/ a = <<>> \/ a[1] # ":" THEN NoParse
                 ELSE LET v == ParseValue(Tail(a))
                          b == TrimLeft(v.rest)
                      IN  IF ~v.ok \/ b = <<>> THEN NoParse
                          ELSE IF b[1] = "}"
                          THEN [ok |-> TRUE, val |-> k.val \o <<":">> \o v.val \o <<"}">>,
                                rest |-> Tail(b)]
                          ELSE IF b[1] = ","
                          THEN LET m == ParseMembers(Tail(b))
                               IN  IF m.ok
                                   THEN [m EXCEPT !.val = k.val \o <<":">> \o v.val
                                                              \o <<",">> \o @]
                                   ELSE NoParse
                          ELSE NoParse

\* the elements of an array and its closing bracket
ParseElements(s) ==
    LET v == ParseValue(s)
        b == TrimLeft(v.rest)
    IN  IF ~v.ok \/ b = <<>> THEN NoParse
        ELSE IF b[1] = "]"
        THEN [ok |-> TRUE, val |-> v.val \o <<"]">>, rest |-> Tail(b)]
        ELSE IF b[1] = ","
        THEN LET m == ParseElements(Tail(b))
             IN  IF m.ok THEN [m EXCEPT !.val = v.val \o <<",">> \o @] ELSE NoParse
        ELSE NoParse

\* what a call returns: a value, or null
Value(val) == [ok |-> TRUE, val |-> val]
Null == [ok |-> FALSE, val |-> <<>>]

\* JSON.parse(text): a value, or Null for a SyntaxError
JsonParseText(text) ==
    LET r == ParseValue(text)
    IN  IF r.ok /\ TrimLeft(r.rest) = <<>> THEN Value(r.val) ELSE Null

\* whether ,(\s*[}\]]) matches at position i of text
MatchesAt(text, i) ==
    /\ text[i] = ","
    /\ LET after == TrimLeft(SubSeq(text, i + 1, Len(text)))
       IN  after # <<>> /\ after[1] \in {"}", "]"}

\* fixedJson: jsonString.replace(/,(\s*[}\]])/g, '$1')
FixedJson(jsonString) ==
    LET keep == {i \in DOMAIN jsonString : ~MatchesAt(jsonString, i)}
        RECURSIVE Pick(_)
        Pick(i) == IF i > Len(jsonString) THEN <<>>
                   ELSE IF i \in keep THEN <<jsonString[i]>> \o Pick(i + 1)
                   ELSE Pick(i + 1)
    IN  Pick(1)

\* parseAnalyticsData of a string
ParseAnalyticsString(analyticsData) ==
    LET f == NextFence(analyticsData, 1)
        captured == IF f = <<>> THEN <<>> ELSE SubSeq(analyticsData, f[1] + 1, f[2] - 1)
        jsonString == IF captured # <<>> THEN captured ELSE analyticsData
        first == JsonParseText(Trim(jsonString))
    IN  IF first.ok THEN first ELSE JsonParseText(Trim(FixedJson(jsonString)))

----------------------------------------------------------------------------

\* the three places of one event, in the order they are probed
PossiblePaths(event) ==
    <<event.actionsStateDelta, event.stateDelta, event.analytics_output>>

\* the first place that is neither undefined nor null
FirstDefined(paths) ==
    IF \E i \in 1..Len(paths) : paths[i] \notin {Undefined, NULL}
    THEN paths[CHOOSE i \in 1..Len(paths) :
                   /\ paths[i] \notin {Undefined, NULL}
                   /\ \A j \in 1..(i - 1) : paths[j] \in {Undefined, NULL}]
    ELSE Undefined

\* extractAnalyticsData on an array of events: the first candidate found is parsed
RECURSIVE ExtractAnalyticsData(_)
ExtractAnalyticsData(fullResponse) ==
    IF fullResponse = <<>> THEN NULL
    ELSE LET data == FirstDefined(PossiblePaths(Head(fullResponse)))
         IN  IF data # Undefined THEN ParseAnalyticsData(data)
             ELSE ExtractAnalyticsData(Tail(fullResponse))

\* The loop of extractAnalyticsData in static/js/main.js: the scan of an event
\* stops at its first candidate, the scan of the events only at a truthy one.
RECURSIVE ScanEventsMain(_, _)
ScanEventsMain(fullResponse, analyticsData) ==
    IF fullResponse = <<>> THEN analyticsData
    ELSE LET data == FirstDefined(PossiblePaths(Head(fullResponse)))
             found == IF data # Undefined THEN data ELSE analyticsData
         IN  IF found # Undefined /\ CandidateTruthy(found) THEN found
             ELSE ScanEventsMain(Tail(fullResponse), found)

\* extractAnalyticsData of static/js/main.js
ExtractAnalyticsDataMain(fullResponse) ==
    LET analyticsData == ScanEventsMain(fullResponse, Undefined)
    IN  IF analyticsData # Undefined /\ CandidateTruthy(analyticsData)
        THEN ParseAnalyticsData(analyticsData)
        ELSE NULL

\* a try whose exception leaves the function
Uncaught(outcome) == outcome

\* try { ... } catch (e) {}: an exception ends the attempt without a result
CatchContinue(outcome) == IF outcome = Thrown THEN NULL ELSE outcome

\* JSON.parse(text) and isAnalyticsData of the result: the value when it
\* qualifies, NULL when it does not
ParseAndTest(text) ==
    LET parsed == JsonParse(text)
    IN  IF parsed = SyntaxError \/ IsAnalyticsDataThrows(parsed) THEN Thrown
        ELSE IF IsAnalyticsData(parsed) THEN parsed
        ELSE NULL

\* the loop over the fenced blocks, in textual order, from position from on
RECURSIVE FirstFenced(_, _)
FirstFenced(content, from) ==
    LET f == NextFence(content, from)
    IN  IF f = <<>> THEN NULL
        ELSE LET r == CatchContinue(ParseAndTest(Trim(SubSeq(content, f[1] + 1, f[2] - 1))))
             IN  IF r # NULL THEN r ELSE FirstFenced(content, f[2] + 1)

\* whether, after position j, only white space precedes a "{" or the end
BraceOrEndFollows(content, j) ==
    LET rest == TrimLeft(SubSeq(content, j + 1, Len(content)))
    IN  rest = <<>> \/ OpensBrace(Head(rest))

\* The matches of /\{[\s\S]*?\}(?=\s*\{|\s*$)/g from position `from` on, each as
\* <<first, last>>: from the next "{" to the first "}" that the lookahead accepts.
RECURSIVE BraceMatches(_, _)
BraceMatches(content, from) ==
    LET starts == {i \in from..Len(content) : OpensBrace(content[i])}
    IN  IF starts = {} THEN <<>>
        ELSE LET i == CHOOSE k \in starts : \A m \in starts : k <= m
                 ends == {j \in i..Len(content) :
                              ClosesBrace(content[j]) /\ BraceOrEndFollows(content, j)}
             IN  IF ends = {} THEN <<>>
                 ELSE LET j == CHOOSE k \in ends : \A m \in ends : k <= m
                      IN  <<(<<i, j>>)>> \o BraceMatches(content, j + 1)

\* the loop over the matches, going backwards from k
RECURSIVE LastQualifying(_, _, _)
LastQualifying(content, matches, k) ==
    IF k = 0 THEN NULL
    ELSE LET r == CatchContinue(ParseAndTest(SubSeq(content, matches[k][1], matches[k][2])))
         IN  IF r # NULL THEN r ELSE LastQualifying(content, matches, k - 1)

\* extractFromContentString
ExtractFromContentString(content) ==
    LET fenced == FirstFenced(content, 1)
        matches == BraceMatches(content, 1)
    IN  IF fenced # NULL THEN fenced
        ELSE CatchContinue(LastQualifying(content, matches, Len(matches)))

\* a test that lets every text through
AlwaysTry(content) == TRUE

\* currentContent.trim().startsWith('{')
StartsWithBrace(content) ==
    LET t == Trim(content) IN t # <<>> /\ OpensBrace(Head(t))

----------------------------------------------------------------------------
(* The callbacks run inside a step of sendMessageStreaming.  They work on a  *)
(* record w of everything such a step may change: c, the closure of the      *)
(* sendMessage call t, the store, the page, and threw, set when an exception *)
(* leaves the callback.                                                      *)

AppendNode(w, cls, html) ==
    [w EXCEPT !.container = Append(@, Node(w.nextDiv, cls, html)),
              !.nextDiv = @ + 1]

\* a removal that leaves the element where it is
KeepNode(nodes, id) == nodes

\* element.remove(): no effect on an element that is not in the container
RemoveNode(nodes, id) == SelectSeq(nodes, LAMBDA n : n.id # id)

\* sets the markup of element id, if it is attached
SetHtml(nodes, id, html) ==
    [i \in DOMAIN nodes |->
        IF nodes[i].id = id THEN [nodes[i] EXCEPT !.html = html] ELSE nodes[i]]

\* ChartRenderer.renderTextBlock for analysis_summary: marked.parse takes a string
RenderTextBlock(w, title, f) ==
    IF f.t = "absent" \/ Len(f.items) = 0 THEN w
    ELSE IF f.t = "string"
         THEN AppendNode(w, "assistant", [fmt |-> title, src |-> f.items])
         ELSE [w EXCEPT !.threw = TRUE]

\* ChartRenderer.renderListBlock behind its length test: items.map needs an array
RenderListBlock(w, title, f) ==
    IF f.t = "absent" \/ Len(f.items) = 0 THEN w
    ELSE IF f.t = "array"
         THEN AppendNode(w, "assistant", [fmt |-> title, src |-> f.items])
         ELSE [w EXCEPT !.threw = TRUE]

\* the element id of the chart with index idx (from 0) of a renderCharts call
ChartId(baseId, idx) == <<baseId, idx>>

\* the markup of a chart container: an inner element that has the chart's id
ChartHtml(chartId) == [fmt |-> "chart", src |-> chartId]

\* the callback renderCharts hands to setTimeout for one chart
Timer(chart, chartId) == [chart |-> chart, chartId |-> chartId]

\* the forEach of renderCharts from index idx on: a container is appended and
\* a callback is set for each chart
RECURSIVE AppendCharts(_, _, _)
AppendCharts(w, hints, idx) ==
    IF idx >= Len(hints) THEN w
    ELSE AppendCharts([AppendNode(w, "chart-container", ChartHtml(ChartId(w.clock, idx)))
                          EXCEPT !.timers = Append(@, Timer(hints[idx + 1],
                                                            ChartId(w.clock, idx)))],
                      hints, idx + 1)

\* ChartRenderer.renderCharts behind its length test: forEach needs an array
RenderCharts(w, f) ==
    IF f.t = "absent" \/ Len(f.items) = 0 THEN w
    ELSE IF f.t = "array" THEN AppendCharts(w, f.items, 0)
         ELSE [w EXCEPT !.threw = TRUE]

\* the chart types createPlotData has a case for
KnownChartTypes == {"bar", "pie", "line"}

\* a createPlotData that has a case for every chart type
OneTracePerChart(chart) == <<chart>>

\* ChartRenderer.createPlotData: the traces of a chart, none for the default case
CreatePlotData(chart) == IF chart \in KnownChartTypes THEN <<chart>> ELSE <<>>

\* The four statements of renderAnalysisChart, each on the payload d.  A
\* statement is not reached when one before it threw.
RenderSummary(w, d) ==
    IF w.threw THEN w ELSE RenderTextBlock(w, "Analysis Summary", d.analysis_summary)

RenderInsights(w, d) ==
    IF w.threw THEN w ELSE RenderListBlock(w, "Key Insights", d.insights)

RenderHints(w, d) ==
    IF w.threw THEN w ELSE RenderCharts(w, d.visualization_hints)

RenderRecommendations(w, d) ==
    IF w.threw THEN w ELSE RenderListBlock(w, "Recommendations", d.recommendations)

\* a renderer that starts with the recommendations
RecommendationsFirst(w, p) ==
    RenderSummary(RenderRecommendations(w, Payloads[p]), Payloads[p])

\* ChartRenderer.renderAnalysisChart
RenderAnalysisChart(w, p) ==
    RenderRecommendations(
        RenderHints(RenderInsights(RenderSummary(w, Payloads[p]), Payloads[p]),
                    Payloads[p]),
        Payloads[p])

\* the three assignments that re-enable the send button and the input
ReEnable(w) ==
    [w EXCEPT !.sendBtnDisabled = FALSE, !.inputDisabled = FALSE,
              !.c.enables = @ + 1]

\* AppState.sessions[AppState.currentSessionId].messages.push(msg): a TypeError
\* when the mapping has no such session
PushMessage(w, msg) ==
    IF currentSessionId \in DOMAIN w.sessions
    THEN [w EXCEPT !.sessions[currentSessionId].messages = Append(@, msg),
                   !.c.appended = @ + (IF msg.role = "assistant" THEN 1 ELSE 0)]
    ELSE [w EXCEPT !.threw = TRUE]

\* a handler that shows the latest text part in place of the text so far
LatestDelta(currentContent, text) == text

\* currentContent += part.text
Accumulate(currentContent, text) == currentContent \o text

\* a handler that goes on with the open block after a tool part
KeepBlock(w) == w

\* currentMessageDiv = null; currentContent = ''
CloseBlock(w) == [w EXCEPT !.c.currentMessageDiv = NoDiv, !.c.currentContent = <<>>]

\* one part of an event, in onEvent
OnPart(w, part) ==
    CASE part.tag = "text" /\ part.text # <<>> ->
            LET fresh == w.c.currentMessageDiv = NoDiv
                w1 == IF fresh
                      THEN [AppendNode(w, "assistant", FormatMessageContent(<<>>))
                               EXCEPT !.c.currentMessageDiv = w.nextDiv,
                                      !.c.currentContent = <<>>,
                                      !.c.blocks = Append(@, w.nextDiv)]
                      ELSE w
                text == Accumulate(w1.c.currentContent, part.text)
            IN  [w1 EXCEPT !.c.currentContent = text,
                           !.container = SetHtml(@, w1.c.currentMessageDiv,
                                                 FormatMessageContent(text))]
      [] part.tag = "functionCall" ->
            IF Trim(w.c.currentContent) # <<>> THEN CloseBlock(w) ELSE w
      [] part.tag = "functionResponse" -> CloseBlock(w)
      [] OTHER -> w

RECURSIVE OnParts(_, _)
OnParts(w, parts) ==
    IF parts = <<>> THEN w ELSE OnParts(OnPart(w, Head(parts)), Tail(parts))

\* the onEvent callback of AppController.sendMessage
OnEvent(w, event) ==
    OnParts([w EXCEPT !.c.fullResponse = Append(@, event),
                      !.c.calls = Append(@, "onEvent")],
            event.parts)

\* a handler that tries the text first
TextFirstPayload(c) ==
    LET fromText == IF StartsWithBrace(c.currentContent)
                    THEN ExtractFromContentString(c.currentContent) ELSE NULL
    IN  IF Truthy(fromText) THEN fromText ELSE ExtractAnalyticsData(c.fullResponse)

\* the analytics payload onComplete decides on, NULL for none
CompletionPayload(c) ==
    LET structured == ExtractAnalyticsData(c.fullResponse)
    IN  IF ~Truthy(structured) /\ StartsWithBrace(c.currentContent)
        THEN ExtractFromContentString(c.currentContent)
        ELSE structured

\* a handler that stores the text of all runs
AllRunsContent(c) == ConcatText(PartsOf(c.fullResponse))

\* content: currentContent, of the message the plain branch stores
StoredContent(c) == c.currentContent

\* a handler that notifies the user when it has found no payload
NotifiesNoPayload(w, jsonData) ==
    LET w0 == [w EXCEPT !.c.calls = Append(@, "onComplete"), !.c.jsonData = jsonData]
    IN  IF Truthy(jsonData)
        THEN LET w1 == [w0 EXCEPT !.container = RemoveNode(@, w0.c.currentMessageDiv)]
                 w2 == PushMessage(w1, Message("assistant", <<"[Analytics Chart Rendered]">>,
                                               w1.t, TRUE))
                 w3 == IF w2.threw THEN w2 ELSE RenderAnalysisChart(w2, jsonData)
             IN  IF w3.threw THEN w3 ELSE ReEnable(w3)
        ELSE LET w2 == PushMessage([w0 EXCEPT !.alerts = @ + 1, !.c.notes = @ + 1],
                                   Message("assistant", StoredContent(w0.c), w0.t, FALSE))
             IN  IF w2.threw THEN w2 ELSE ReEnable(w2)

\* onComplete from its test of jsonData on
CompleteWith(w, jsonData) ==
    LET w0 == [w EXCEPT !.c.calls = Append(@, "onComplete"), !.c.jsonData = jsonData]
    IN  IF Truthy(jsonData)
        THEN LET w1 == [w0 EXCEPT !.container = RemoveNode(@, w0.c.currentMessageDiv)]
                 w2 == PushMessage(w1, Message("assistant", <<"[Analytics Chart Rendered]">>,
                                               w1.t, TRUE))
                 w3 == IF w2.threw THEN w2 ELSE RenderAnalysisChart(w2, jsonData)
             IN  IF w3.threw THEN w3 ELSE ReEnable(w3)
        ELSE LET w2 == PushMessage(w0, Message("assistant", StoredContent(w0.c),
                                               w0.t, FALSE))
             IN  IF w2.threw THEN w2 ELSE ReEnable(w2)

\* the onComplete callback of AppController.sendMessage
OnComplete(w) == CompleteWith(w, CompletionPayload(w.c))

\* the onError callback of AppController.sendMessage
OnError(w) ==
    LET w0 == [w EXCEPT !.c.calls = Append(@, "onError"),
                        !.alerts = @ + 1, !.c.notes = @ + 1]
        w1 == [AppendNode(w0, "assistant error-message",
                          RawHtml(<<"Error: Failed to get response">>))
                  EXCEPT !.c.errorBlocks = @ + 1]
    IN  ReEnable(w1)

----------------------------------------------------------------------------
(* ApiService.sendMessageStreaming: the records on the wire *)

NewLine == "\n"
Marker == <<"d", "a", "t", "a", ":", " ">>

\* The JSON documents a record may carry, by name: on the wire a document is
\* the three tokens "{", its name, "}".
Documents ==
    [complete  |-> [type |-> "complete", event |-> ContentEvent(<<>>)],
     error     |-> [type |-> "error", event |-> ContentEvent(<<>>)],
     text      |-> [type |-> Undefined, event |-> ContentEvent(<<TextPart(<<"a">>)>>)],
     call      |-> [type |-> Undefined, event |-> ContentEvent(<<FunctionCallPart>>)],
     json      |-> [type |-> Undefined,
                    event |-> ContentEvent(<<TextPart(<<JsonSummary>>)>>)],
     analytics |-> [type |-> Undefined, event |-> AnalyticsEvent("obj_summary")],
     badshape  |-> [type |-> Undefined, event |-> AnalyticsEvent("obj_badshape")]]

DataLine(doc) == Marker \o <<"{", doc, "}">> \o <<NewLine>>

\* line.startsWith('data: ')
StartsWithMarker(line) ==
    Len(line) >= Len(Marker) /\ SubSeq(line, 1, Len(Marker)) = Marker

\* line.slice(6).trim()
Payload(line) == Trim(SubSeq(line, Len(Marker) + 1, Len(line)))

\* a parser that accepts a document whose closing brace is missing
ParsesUnclosed(data) ==
    Len(data) >= 2 /\ data[1] = "{" /\ data[2] \in DOMAIN Documents

\* whether JSON.parse(data) returns
Parses(data) ==
    Len(data) = 3 /\ data[1] = "{" /\ data[3] = "}" /\ data[2] \in DOMAIN Documents

\* buffer.split('\n'): the pieces between the newlines, the last one included
RECURSIVE Split(_)
Split(text) ==
    IF \E i \in 1..Len(text) : text[i] = NewLine
    THEN LET i == CHOOSE k \in 1..Len(text) :
                      text[k] = NewLine /\ \A j \in 1..(k - 1) : text[j] # NewLine
         IN  <<SubSeq(text, 1, i - 1)>> \o Split(SubSeq(text, i + 1, Len(text)))
    ELSE <<text>>

Caught(w) == [w EXCEPT !.threw = FALSE]

\* The body of `for (const line of lines)`.  An exception of a callback is
\* caught by the try around JSON.parse, which skips the break after the call.
RECURSIVE ProcessLines(_, _)
ProcessLines(w, lines) ==
    IF lines = <<>> THEN w
    ELSE LET line == Head(lines)
             rest == Tail(lines)
         IN  IF ~StartsWithMarker(line) THEN ProcessLines(w, rest)
             ELSE IF Payload(line) = <<>> THEN ProcessLines(w, rest)
             ELSE IF ~Parses(Payload(line)) THEN ProcessLines(w, rest)
             ELSE LET doc == Documents[Payload(line)[2]]
                  IN  CASE doc.type = "error" ->
                              LET w1 == OnError(w)
                              IN  IF w1.threw THEN ProcessLines(Caught(w1), rest) ELSE w1
                        [] doc.type = "complete" ->
                              IF ~w.c.completed
                              THEN LET w1 == OnComplete([w EXCEPT !.c.completed = TRUE])
                                   IN  IF w1.threw THEN ProcessLines(Caught(w1), rest)
                                       ELSE w1
                              ELSE w
                        [] OTHER ->
                              ProcessLines(Caught(OnEvent(w, doc.event)), rest)

\* a reader that also parses the piece after the last newline
ParsesPartialLine(w, chunk) ==
    LET pieces == Split(w.c.buffer \o chunk)
        w1 == [w EXCEPT !.c.buffer = pieces[Len(pieces)],
                        !.c.received = @ \o chunk]
    IN  ProcessLines(w1, pieces)

\* one resolved reader.read() that carries bytes
ProcessChunk(w, chunk) ==
    LET pieces == Split(w.c.buffer \o chunk)
        w1 == [w EXCEPT !.c.buffer = pieces[Len(pieces)],
                        !.c.received = @ \o chunk]
    IN  ProcessLines(w1, SubSeq(pieces, 1, Len(pieces) - 1))

\* the catch block of AppController.sendMessage
SendMessageCatch(w) ==
    ReEnable([w EXCEPT !.alerts = @ + 1, !.c.notes = @ + 1])

\* the catch block of sendMessageStreaming, whose rethrow lands in sendMessage's
StreamingCatch(w) ==
    [SendMessageCatch(OnError(Caught(w))) EXCEPT !.c.pc = "done"]

\* a reader that completes at the end of the stream whatever came before
StreamDoneUnflagged(w) ==
    LET w1 == OnComplete([w EXCEPT !.c.completed = TRUE, !.c.ended = TRUE])
    IN  IF w1.threw THEN StreamingCatch(w1) ELSE [w1 EXCEPT !.c.pc = "done"]

\* reader.read() resolved with done
StreamDone(w) ==
    IF ~w.c.completed
    THEN LET w1 == OnComplete([w EXCEPT !.c.completed = TRUE, !.c.ended = TRUE])
         IN  IF w1.threw THEN StreamingCatch(w1) ELSE [w1 EXCEPT !.c.pc = "done"]
    ELSE [w EXCEPT !.c.pc = "done", !.c.ended = TRUE]

----------------------------------------------------------------------------
(* State *)

\* AnalyticsParser has not been handed anything
NoProbe == [kind |-> "none", input |-> <<>>, out |-> Undefined, parsed |-> <<>>,
            outMain |-> Undefined, outText |-> Undefined]

\* The closure of one sendMessage call.  pc is its position: idle (not called),
\* fetch (awaiting fetch), read (awaiting reader.read()), done (settled).
\* The fields from session on record what the call has met and done so far
\* (the session its user message went to, the characters received, the
\* callbacks invoked, the numbers of assistant messages appended, of
\* re-enablings, of notifications and of error blocks, the message blocks
\* created, whether the stream ended, whether the transport failed and the
\* value of jsonData when onComplete tested it); the code does not read them.
IdleTurn ==
    [pc |-> "idle", completed |-> FALSE, buffer |-> <<>>,
     currentMessageDiv |-> NoDiv, currentContent |-> <<>>, fullResponse |-> <<>>,
     session |-> NULL, received |-> <<>>, calls |-> <<>>, appended |-> 0,
     enables |-> 0, notes |-> 0, errorBlocks |-> 0, blocks |-> <<>>,
     ended |-> FALSE, failed |-> FALSE, jsonData |-> Undefined]

World(t) ==
    [t |-> t, c |-> turn[t], sessions |-> sessions, container |-> container,
     nextDiv |-> nextDiv, sendBtnDisabled |-> sendBtnDisabled,
     inputDisabled |-> inputDisabled, alerts |-> alerts, threw |-> FALSE,
     clock |-> clock, timers |-> timers]

\* the state after a step of call w.t that ended as w
Commit(w) ==
    /\ turn' = [turn EXCEPT ![w.t] = w.c]
    /\ sessions' = w.sessions
    /\ container' = w.container
    /\ nextDiv' = w.nextDiv
    /\ sendBtnDisabled' = w.sendBtnDisabled
    /\ inputDisabled' = w.inputDisabled
    /\ alerts' = w.alerts
    /\ timers' = w.timers

\* what a step of sendMessageStreaming leaves alone
StreamFrame ==
    UNCHANGED <<currentAgent, currentSessionId, sessionList, deleteBtnShown,
                pending, userActions, probe, clock, plots>>

Count(seq, x) == Cardinality({i \in DOMAIN seq : seq[i] = x})

\* the user's message of a turn
UserText == <<"h", "i">>

\* a session of an agent is selected, its message sent, the stream is open
StreamingPage ==
    /\ currentAgent = "A"
    /\ currentSessionId = "s1"
    /\ sessions = [s \in {"s1"} |->
                      [messages |-> <<Message("user", UserText, 0, FALSE)>>]]
    /\ sessionList = {"s1"}
    /\ sendBtnDisabled = TRUE
    /\ inputDisabled = TRUE
    /\ deleteBtnShown = TRUE
    /\ container = <<Node(1, "user", FormatMessageContent(UserText))>>
    /\ nextDiv = 2
    /\ alerts = 0
    /\ pending = {}
    /\ turn = [t \in TurnIds |->
                  IF t = 1 THEN [IdleTurn EXCEPT !.pc = "read", !.session = "s1"]
                  ELSE IdleTurn]
    /\ userActions = 0
    /\ probe = NoProbe
    /\ clock = 0
    /\ timers = <<>>
    /\ plots = <<>>

Streaming == StreamingPage /\ wire = <<>>

----------------------------------------------------------------------------
(* SpecEvents: the callbacks of one turn, driven by events of any parts *)

TextTokens == {<<>>, <<" ">>, <<"a">>, <<"b">>}

PartKinds == {TextPart(s) : s \in TextTokens} \cup {FunctionCallPart, FunctionResponsePart}

\* onEvent is called with an event of one to MaxEventParts parts
DeliverEvent ==
    /\ turn[1].pc = "read"
    /\ \E n \in 1..MaxEventParts : \E parts \in [1..n -> PartKinds] :
          /\ Len(PartsOf(turn[1].fullResponse)) + n <= MaxParts
          /\ Commit(OnEvent(World(1), ContentEvent(parts)))
    /\ StreamFrame
    /\ UNCHANGED wire

\* reader.read() resolves with done: the server has sent all and closed
EndOfStream(t) ==
    /\ turn[t].pc = "read"
    /\ wire = <<>>
    /\ Commit(StreamDone(World(t)))
    /\ StreamFrame
    /\ UNCHANGED wire

\* reader.read() rejects
ReadFails(t) ==
    /\ turn[t].pc = "read"
    /\ Commit(StreamingCatch([World(t) EXCEPT !.c.failed = TRUE]))
    /\ StreamFrame
    /\ UNCHANGED wire

NextEvents == DeliverEvent \/ EndOfStream(1)

SpecEvents == Streaming /\ [][NextEvents]_vars

----------------------------------------------------------------------------
(* SpecTurn: one turn whose events carry text, tool parts or an analytics    *)
(* field, each event with at most one of them                                *)

TurnTokens == {"a", " ", "{", JsonSummary, JsonInsights, JsonOther}

TurnCandidates ==
    {"obj_summary", "obj_badshape", "obj_other", "str_summary", "str_bad",
     "str_five", "zero"}

TurnEvents ==
    {ContentEvent(<<TextPart(<<tok>>)>>) : tok \in TurnTokens}
        \cup {ContentEvent(<<FunctionCallPart>>)}
        \cup {AnalyticsEvent(cand) : cand \in TurnCandidates}

\* onEvent is called with one of the events
DeliverTurnEvent ==
    /\ turn[1].pc = "read"
    /\ Len(turn[1].fullResponse) < MaxTurnEvents
    /\ \E event \in TurnEvents : Commit(OnEvent(World(1), event))
    /\ StreamFrame
    /\ UNCHANGED wire

NextTurn == DeliverTurnEvent \/ EndOfStream(1)

SpecTurn == Streaming /\ [][NextTurn]_vars

\* an object that has at least one of the four recognized keys
Qualifies(p) == Payloads[p].obj /\ Payloads[p].keys \cap RecognizedKeys # {}

\* the fenced blocks of a text, in textual order, each as its content
RECURSIVE FencedBlocks(_, _)
FencedBlocks(text, from) ==
    LET f == NextFence(text, from)
    IN  IF f = <<>> THEN <<>>
        ELSE <<SubSeq(text, f[1] + 1, f[2] - 1)>> \o FencedBlocks(text, f[2] + 1)

\* the brace-delimited JSON objects of a text, in textual order
ObjectsIn(text) == SelectSeq(text, IsJsonLiteral)

\* what the contract of extractFromContentString gives for a text
FirstFencedElseLastObject(text) ==
    LET blocks == SelectSeq(FencedBlocks(text, 1),
                            LAMBDA b : /\ JsonParse(b) \in DOMAIN Payloads
                                       /\ Qualifies(JsonParse(b)))
        objects == SelectSeq(ObjectsIn(text), LAMBDA tok : Qualifies(JsonLiterals[tok]))
    IN  IF blocks # <<>> THEN JsonParse(blocks[1])
        ELSE IF objects # <<>> THEN JsonLiterals[objects[Len(objects)]]
        ELSE NULL

\* C19: for a string, extractFromContentString returns the first fenced JSON
\* block, in textual order, that parses and qualifies; if no fenced block
\* qualifies, the last brace-delimited JSON object of the text that
\* qualifies; and absent when nothing qualifies.
C19_FirstFencedElseLastObject ==
    (probe.kind = "string" /\ probe.outText # Undefined)
        => probe.outText = FirstFencedElseLastObject(probe.input)

\* C20: the extractor never raises to its caller: for every event list and
\* every string, extractAnalyticsData and extractFromContentString return a
\* parsed value or null.
C20_NeverRaises ==
    /\ probe.out \in DOMAIN Payloads \cup {NULL, Zero, Undefined}
    /\ probe.outText \in DOMAIN Payloads \cup {NULL, Zero, Undefined}
    /\ probe.outMain \in DOMAIN Payloads \cup {NULL, Zero, Undefined}

\* inputs on which a parse or the membership test throws inside the extractor
C20_Witness ==
    \/ /\ probe.kind = "string"
       /\ probe.input = <<FenceOpen, "\n", "a", "\n", FenceClose, JsonShadow>>
       /\ probe.out = NULL
       /\ probe.outText = NULL
    \/ /\ probe.kind = "events"
       /\ probe.input = <<Event(<<>>, Undefined, Undefined, "str_bad")>>
       /\ probe.out = NULL

----------------------------------------------------------------------------
(* SpecRender: one turn that ends with the rendering of an analytics        *)
(* payload, and the deferred plotting calls of its charts                   *)

RenderCandidates ==
    {"obj_summary", "obj_badshape", "obj_other", "obj_full", "obj_mixed",
     "obj_empties", "obj_ends", "obj_hintstring"}

RenderEvents ==
    {ContentEvent(<<TextPart(<<"a">>)>>)}
        \cup {AnalyticsEvent(cand) : cand \in RenderCandidates}

\* onEvent is called with one of the events
DeliverRenderEvent ==
    /\ turn[1].pc = "read"
    /\ Len(turn[1].fullResponse) < MaxRenderEvents
    /\ \E event \in RenderEvents : Commit(OnEvent(World(1), event))
    /\ StreamFrame
    /\ UNCHANGED wire

\* a call of Plotly.newPlot: the container node drawn into, and the traces
NewPlot(node, chartId, data) == [node |-> node, chartId |-> chartId, data |-> data]

\* document.getElementById(chartId): the positions in the container of the
\* chart containers whose inner element has that id
ElementsById(chartId) ==
    {i \in DOMAIN container : container[i].html = ChartHtml(chartId)}

\* the callback of the timer that is due first runs: renderSingleChart
TimerFires ==
    /\ timers # <<>>
    /\ timers' = Tail(timers)
    /\ plots' =
          IF ElementsById(Head(timers).chartId) = {} THEN plots
          ELSE Append(plots,
                      NewPlot(container[CHOOSE i \in ElementsById(Head(timers).chartId) :
                                            \A j \in ElementsById(Head(timers).chartId) :
                                                i <= j].id,
                              Head(timers).chartId,
                              CreatePlotData(Head(timers).chart)))
    /\ UNCHANGED <<currentAgent, currentSessionId, sessions, sessionList,
                   sendBtnDisabled, inputDisabled, deleteBtnShown, container, nextDiv,
                   alerts, pending, turn, wire, userActions, probe, clock>>

\* a millisecond passes
Tick ==
    /\ clock < MaxClock
    /\ clock' = clock + 1
    /\ UNCHANGED <<currentAgent, currentSessionId, sessions, sessionList,
                   sendBtnDisabled, inputDisabled, deleteBtnShown, container, nextDiv,
                   alerts, pending, turn, wire, userActions, probe, timers, plots>>

NextRender == DeliverRenderEvent \/ EndOfStream(1) \/ TimerFires \/ Tick

SpecRender == Streaming /\ [][NextRender]_vars

----------------------------------------------------------------------------
(* SpecStream: one stream of records, cut into read chunks at any character *)

MalformedLine == Marker \o <<"{", "text", NewLine>>
NoMarkerLine == <<"{", "text", "}", NewLine>>
EmptyPayloadLine == Marker \o <<NewLine>>

StreamLines ==
    {DataLine("complete"), DataLine("error"), DataLine("text"), DataLine("badshape"),
     MalformedLine, NoMarkerLine, EmptyPayloadLine}

RECURSIVE Flatten(_)
Flatten(seqs) == IF seqs = <<>> THEN <<>> ELSE Head(seqs) \o Flatten(Tail(seqs))

\* the server's stream: up to MaxRecords newline-terminated records
InitStream ==
    /\ StreamingPage
    /\ \E n \in 0..MaxRecords : \E ls \in [1..n -> StreamLines] : wire = Flatten(ls)

\* reader.read() resolves with the next n characters of the stream
ReadBytes(t) ==
    /\ turn[t].pc = "read"
    /\ \E n \in 1..Len(wire) :
          /\ Commit(ProcessChunk(World(t), SubSeq(wire, 1, n)))
          /\ wire' = SubSeq(wire, n + 1, Len(wire))
    /\ StreamFrame

NextStream == ReadBytes(1) \/ EndOfStream(1) \/ ReadFails(1)

SpecStream == InitStream /\ [][NextStream]_vars

\* C1: the onComplete callback of a turn is never invoked twice, and it has
\* been invoked exactly once when the stream has been read to its end, whether
\* or not a "complete" record came before the end and however the stream was
\* cut into chunks.
C1_CompleteOnce ==
    \A t \in TurnIds :
        /\ Count(turn[t].calls, "onComplete") <= 1
        /\ turn[t].ended => Count(turn[t].calls, "onComplete") = 1

\* a "complete" record was received, the stream then ended, and onComplete has
\* fired once
C1_Witness ==
    /\ turn[1].ended
    /\ \E i \in 1..(Len(turn[1].received) - Len(DataLine("complete")) + 1) :
          SubSeq(turn[1].received, i, i + Len(DataLine("complete")) - 1)
              = DataLine("complete")
    /\ Count(turn[1].calls, "onComplete") = 1

----------------------------------------------------------------------------
(* Spec: the page from its load on, with the user's actions, the responses   *)
(* of the session API and the turns' streams interleaved                     *)

Agents == {"A", "B"}

\* the ids of the sessions the server lists for an agent
ServerSessions == [A |-> {"s1", "s2"}, B |-> {}]

OldText == <<"o", "l", "d">>

\* the message histories the server may return for a session
ServerHistories == {<<>>, <<Message("user", OldText, 0, FALSE)>>}

\* the records a stream is made of here; a read returns whole records
AppLines == {DataLine("complete"), DataLine("error"), DataLine("text")}

\* a request in flight: its arguments, and id, the number of the user action
\* whose handler awaits it
Request(kind, agent, sid, id) == [kind |-> kind, agent |-> agent, sid |-> sid, id |-> id]

EmptyState == Node(0, "empty-state", RawHtml(<<>>))

\* UIRenderer.updateUIState
UpdateUIState(isSessionSelected) ==
    /\ inputDisabled' = ~isSessionSelected
    /\ sendBtnDisabled' = ~isSessionSelected
    /\ deleteBtnShown' = isSessionSelected

\* the analytics payload renderMessages decides on for a stored assistant
\* message, NULL for none
HistoryPayload(msg) ==
    LET structured == IF msg.full_response # 0
                      THEN ExtractAnalyticsData(turn[msg.full_response].fullResponse)
                      ELSE NULL
    IN  IF ~Truthy(structured) /\ msg.content # <<>>
        THEN ExtractFromContentString(msg.content)
        ELSE structured

\* the body of messages.forEach in UIRenderer.renderMessages
RECURSIVE RenderEach(_, _)
RenderEach(r, msgs) ==
    IF msgs = <<>> \/ r.threw THEN r
    ELSE LET msg == Head(msgs)
             jsonData == HistoryPayload(msg)
             r1 == IF msg.role = "assistant" /\ Truthy(jsonData)
                   THEN RenderAnalysisChart(r, jsonData)
                   ELSE AppendNode(r, msg.role, FormatMessageContent(msg.content))
         IN  RenderEach(r1, Tail(msgs))

\* UIRenderer.renderMessages, on the page r = [container, nextDiv, threw]
RenderMessages(r, msgs) ==
    IF msgs = <<>> THEN [r EXCEPT !.container = <<EmptyState>>]
    ELSE RenderEach([r EXCEPT !.container = <<>>], msgs)

\* the change handler of #agentSelector up to the await in loadModels
AgentChange(a) ==
    /\ userActions < MaxUserActions
    /\ a # currentAgent
    /\ userActions' = userActions + 1
    /\ currentAgent' = a
    /\ currentSessionId' = NULL
    /\ sessions' = <<>>
    /\ IF a # ""
       THEN /\ pending' = pending \cup {Request("loadModels", a, NULL, userActions + 1)}
            /\ UNCHANGED <<sessionList, sendBtnDisabled, inputDisabled, deleteBtnShown>>
       ELSE /\ sessionList' = {}
            /\ UpdateUIState(FALSE)
            /\ UNCHANGED pending
    /\ UNCHANGED <<container, nextDiv, alerts, turn, wire>>
    /\ UNCHANGED <<probe, clock, timers, plots>>

\* AppController.loadModels from the response on (the model selector is not
\* part of the state), and the change handler up to the await in loadSessions,
\* or to its end when no agent is selected by now
LoadModelsResponse(req, ok) ==
    /\ req \in pending /\ req.kind = "loadModels"
    /\ alerts' = alerts + (IF ok THEN 0 ELSE 1)
    /\ IF currentAgent # ""
       THEN /\ pending' = (pending \ {req})
                              \cup {Request("loadSessions", currentAgent, NULL, req.id)}
            /\ UNCHANGED <<sendBtnDisabled, inputDisabled, deleteBtnShown>>
       ELSE /\ pending' = pending \ {req}
            /\ UpdateUIState(FALSE)
    /\ UNCHANGED <<currentAgent, currentSessionId, sessions, sessionList, container,
                   nextDiv, turn, wire, userActions>>
    /\ UNCHANGED <<probe, clock, timers, plots>>

\* AppController.loadSessions from the response on, and the rest of the change
\* handler.  A listed session comes with an empty message list.
LoadSessionsResponse(req, ok) ==
    /\ req \in pending /\ req.kind = "loadSessions"
    /\ pending' = pending \ {req}
    /\ IF ok
       THEN /\ sessions' = [s \in ServerSessions[req.agent] |-> [messages |-> <<>>]]
            /\ sessionList' = ServerSessions[req.agent]
            /\ UNCHANGED alerts
       ELSE /\ alerts' = alerts + 1
            /\ UNCHANGED <<sessions, sessionList>>
    /\ UpdateUIState(FALSE)
    /\ UNCHANGED <<currentAgent, currentSessionId, container, nextDiv, turn, wire,
                   userActions>>
    /\ UNCHANGED <<probe, clock, timers, plots>>

\* AppController.selectSession up to its await: a click on a rendered session item
SelectSession(sid) ==
    /\ userActions < MaxUserActions
    /\ sid \in sessionList
    /\ userActions' = userActions + 1
    /\ currentSessionId' = sid
    /\ sessionList' = DOMAIN sessions
    /\ UpdateUIState(TRUE)
    /\ pending' = pending \cup {Request("session", currentAgent, sid, userActions + 1)}
    /\ UNCHANGED <<currentAgent, sessions, container, nextDiv, alerts, turn, wire>>
    /\ UNCHANGED <<probe, clock, timers, plots>>

\* the try block of AppController.selectSession after a fetch that returned
\* the messages msgs
StoreAndRender(req, msgs) ==
    LET r == RenderMessages([container |-> container, nextDiv |-> nextDiv,
                             threw |-> FALSE, clock |-> clock,
                             timers |-> timers], msgs)
    IN  /\ sessions' = [s \in DOMAIN sessions \cup {req.sid} |->
                           IF s = req.sid THEN [messages |-> msgs]
                           ELSE sessions[s]]
        /\ container' = r.container
        /\ nextDiv' = r.nextDiv
        /\ timers' = r.timers
        /\ alerts' = alerts + (IF r.threw THEN 1 ELSE 0)

\* AppController.selectSession from the response on
SessionResponse(req, ok) ==
    /\ req \in pending /\ req.kind = "session"
    /\ pending' = pending \ {req}
    /\ IF ok
       THEN \E msgs \in ServerHistories : StoreAndRender(req, msgs)
       ELSE /\ alerts' = alerts + 1
            /\ UNCHANGED <<sessions, container, nextDiv, timers>>
    /\ UNCHANGED <<currentAgent, currentSessionId, sessionList, sendBtnDisabled,
                   inputDisabled, deleteBtnShown, turn, wire, userActions>>
    /\ UNCHANGED <<probe, clock, plots>>

\* `s_${Date.now()}` of the user action with the given number: two clicks are
\* more than a millisecond apart
NewSessionId(action) == <<"n1", "n2", "n3", "n4", "n5", "n6">>[action]

\* AppController.createNewSession up to its await, or to its end when no
\* agent is selected
CreateNewSession ==
    /\ userActions < MaxUserActions
    /\ userActions' = userActions + 1
    /\ IF currentAgent = ""
       THEN /\ alerts' = alerts + 1
            /\ UNCHANGED pending
       ELSE /\ pending' = pending \cup {Request("create", currentAgent,
                                                 NewSessionId(userActions + 1),
                                                 userActions + 1)}
            /\ UNCHANGED alerts
    /\ UNCHANGED <<currentAgent, currentSessionId, sessions, sessionList,
                   sendBtnDisabled, inputDisabled, deleteBtnShown, container, nextDiv,
                   turn, wire>>
    /\ UNCHANGED <<probe, clock, timers, plots>>

\* AppController.createNewSession from the response on: the session is added
\* and selectSession runs up to its await
CreateResponse(req, ok) ==
    /\ req \in pending /\ req.kind = "create"
    /\ IF ok
       THEN /\ sessions' = [s \in DOMAIN sessions \cup {req.sid} |->
                               IF s = req.sid THEN [messages |-> <<>>] ELSE sessions[s]]
            /\ currentSessionId' = req.sid
            /\ sessionList' = DOMAIN sessions \cup {req.sid}
            /\ UpdateUIState(TRUE)
            /\ pending' = (pending \ {req})
                              \cup {Request("session", currentAgent, req.sid, req.id)}
            /\ UNCHANGED alerts
       ELSE /\ alerts' = alerts + 1
            /\ pending' = pending \ {req}
            /\ UNCHANGED <<currentSessionId, sessions, sessionList, sendBtnDisabled,
                           inputDisabled, deleteBtnShown>>
    /\ UNCHANGED <<currentAgent, container, nextDiv, turn, wire, userActions>>
    /\ UNCHANGED <<probe, clock, timers, plots>>

\* AppController.deleteCurrentSession up to its await (the user confirms)
DeleteCurrentSession ==
    /\ userActions < MaxUserActions
    /\ deleteBtnShown
    /\ currentSessionId # NULL
    /\ userActions' = userActions + 1
    /\ pending' = pending \cup {Request("delete", currentAgent, currentSessionId,
                                          userActions + 1)}
    /\ UNCHANGED <<currentAgent, currentSessionId, sessions, sessionList,
                   sendBtnDisabled, inputDisabled, deleteBtnShown, container, nextDiv,
                   alerts, turn, wire>>
    /\ UNCHANGED <<probe, clock, timers, plots>>

\* AppController.deleteCurrentSession from the response on
DeleteResponse(req, ok) ==
    /\ req \in pending /\ req.kind = "delete"
    /\ pending' = pending \ {req}
    /\ IF ok
       THEN /\ sessions' = [s \in DOMAIN sessions \ {currentSessionId} |-> sessions[s]]
            /\ currentSessionId' = NULL
            /\ sessionList' = DOMAIN sessions \ {currentSessionId}
            /\ UpdateUIState(FALSE)
            /\ container' = <<EmptyState>>
            /\ UNCHANGED alerts
       ELSE /\ alerts' = alerts + 1
            /\ UNCHANGED <<currentSessionId, sessions, sessionList, sendBtnDisabled,
                           inputDisabled, deleteBtnShown, container>>
    /\ UNCHANGED <<currentAgent, nextDiv, turn, wire, userActions>>
    /\ UNCHANGED <<probe, clock, timers, plots>>

\* AppController.sendMessage up to the await of fetch in sendMessageStreaming:
\* the submit of #messageForm with a non-empty message while the button and the
\* input accept it.  t is the first call not made yet.
SendMessage(t) ==
    /\ userActions < MaxUserActions
    /\ ~sendBtnDisabled /\ ~inputDisabled
    /\ turn[t].pc = "idle" /\ \A u \in 1..(t - 1) : turn[u].pc # "idle"
    /\ currentSessionId # NULL
    /\ userActions' = userActions + 1
    /\ LET w0 == [World(t) EXCEPT !.sendBtnDisabled = TRUE, !.inputDisabled = TRUE,
                                  !.c.session = currentSessionId]
           w1 == PushMessage(w0, Message("user", UserText, 0, FALSE))
       IN  IF w1.threw
           THEN Commit([w1 EXCEPT !.c.pc = "done"])
           ELSE Commit([AppendNode(w1, "user", FormatMessageContent(UserText))
                           EXCEPT !.c.pc = "fetch"])
    /\ UNCHANGED <<currentAgent, currentSessionId, sessionList, deleteBtnShown,
                   pending, wire>>
    /\ UNCHANGED <<probe, clock, plots>>

\* fetch resolves with a success status: the reader is taken, the first read awaited
FetchResolves(t) ==
    /\ turn[t].pc = "fetch"
    /\ Commit([World(t) EXCEPT !.c.pc = "read"])
    /\ StreamFrame
    /\ UNCHANGED wire

\* fetch rejects, or resolves with a status that is not a success
FetchFails(t) ==
    /\ turn[t].pc = "fetch"
    /\ Commit(StreamingCatch([World(t) EXCEPT !.c.failed = TRUE]))
    /\ StreamFrame
    /\ UNCHANGED wire

\* reader.read() resolves with one whole record
ReadLines(t) ==
    /\ turn[t].pc = "read"
    /\ Count(turn[t].received, NewLine) < MaxAppRecords
    /\ \E line \in AppLines : Commit(ProcessChunk(World(t), line))
    /\ StreamFrame
    /\ UNCHANGED wire

Init ==
    /\ currentAgent = ""
    /\ currentSessionId = NULL
    /\ sessions = <<>>
    /\ sessionList = {}
    /\ sendBtnDisabled = TRUE
    /\ inputDisabled = TRUE
    /\ deleteBtnShown = FALSE
    /\ container = <<EmptyState>>
    /\ nextDiv = 1
    /\ alerts = 0
    /\ pending = {}
    /\ turn = [t \in TurnIds |-> IdleTurn]
    /\ wire = <<>>
    /\ userActions = 0
    /\ probe = NoProbe
    /\ clock = 0
    /\ timers = <<>>
    /\ plots = <<>>

Next ==
    \/ \E a \in Agents \cup {""} : AgentChange(a)
    \/ \E req \in pending, ok \in BOOLEAN : LoadModelsResponse(req, ok)
    \/ \E req \in pending, ok \in BOOLEAN : LoadSessionsResponse(req, ok)
    \/ \E sid \in sessionList : SelectSession(sid)
    \/ \E req \in pending, ok \in BOOLEAN : SessionResponse(req, ok)
    \/ DeleteCurrentSession
    \/ \E req \in pending, ok \in BOOLEAN : DeleteResponse(req, ok)
    \/ \E t \in TurnIds : SendMessage(t)
    \/ \E t \in TurnIds : FetchResolves(t)
    \/ \E t \in TurnIds : FetchFails(t)
    \/ \E t \in TurnIds : ReadLines(t)
    \/ \E t \in TurnIds : EndOfStream(t)
    \/ \E t \in TurnIds : ReadFails(t)

Spec == Init /\ [][Next]_vars

----------------------------------------------------------------------------
(* SpecSessions: the session handlers, each suspended at its network call,  *)
(* in every interleaving; no message is sent                                *)

NextSessions ==
    \/ \E a \in Agents \cup {""} : AgentChange(a)
    \/ \E req \in pending, ok \in BOOLEAN : LoadModelsResponse(req, ok)
    \/ \E req \in pending, ok \in BOOLEAN : LoadSessionsResponse(req, ok)
    \/ \E sid \in sessionList : SelectSession(sid)
    \/ \E req \in pending, ok \in BOOLEAN : SessionResponse(req, ok)
    \/ CreateNewSession
    \/ \E req \in pending, ok \in BOOLEAN : CreateResponse(req, ok)
    \/ DeleteCurrentSession
    \/ \E req \in pending, ok \in BOOLEAN : DeleteResponse(req, ok)

SpecSessions == Init /\ [][NextSessions]_vars

----------------------------------------------------------------------------
(* SpecHistory: a session whose history on the server holds analytics        *)
(* messages is selected, and selected again, while the deferred plotting     *)
(* calls of its charts come due                                              *)

\* the messages a history on the server is made of
HistoryMessages ==
    {Message("user", OldText, 0, FALSE),
     Message("assistant", <<"a">>, 0, FALSE),
     Message("assistant", <<JsonFull>>, 0, FALSE)}

\* agent A has been selected and its session s1 has just been clicked
InitHistory ==
    /\ currentAgent = "A"
    /\ currentSessionId = "s1"
    /\ sessions = [s \in ServerSessions["A"] |-> [messages |-> <<>>]]
    /\ sessionList = ServerSessions["A"]
    /\ sendBtnDisabled = FALSE
    /\ inputDisabled = FALSE
    /\ deleteBtnShown = TRUE
    /\ container = <<EmptyState>>
    /\ nextDiv = 1
    /\ alerts = 0
    /\ pending = {Request("session", "A", "s1", 2)}
    /\ turn = [t \in TurnIds |-> IdleTurn]
    /\ wire = <<>>
    /\ userActions = 2
    /\ probe = NoProbe
    /\ clock = 0
    /\ timers = <<>>
    /\ plots = <<>>

\* the fetch of selectSession returns a history of up to MaxHistory messages
HistoryResponse(req) ==
    /\ req \in pending /\ req.kind = "session"
    /\ pending' = pending \ {req}
    /\ \E n \in 0..MaxHistory : \E msgs \in [1..n -> HistoryMessages] :
          StoreAndRender(req, msgs)
    /\ UNCHANGED <<currentAgent, currentSessionId, sessionList, sendBtnDisabled,
                   inputDisabled, deleteBtnShown, turn, wire, userActions>>
    /\ UNCHANGED <<probe, clock, plots>>

NextHistory ==
    \/ \E sid \in sessionList : SelectSession(sid)
    \/ \E req \in pending : HistoryResponse(req)
    \/ TimerFires
    \/ Tick

SpecHistory == InitHistory /\ [][NextHistory]_vars

----------------------------------------------------------------------------
(* SpecMain: the controller of static/js/main.js, which awaits one response  *)
(* per message and keeps the messages of every session in the mapping that   *)
(* loadSessions returns                                                      *)

\* the fullResponse arrays stored messages refer to, seen from a step that has
\* worked call t up to the closure c
FullResponses(t, c) ==
    [u \in TurnIds |-> IF u = t THEN c.fullResponse ELSE turn[u].fullResponse]

\* the body of messages.forEach in UIRenderer.renderMessages of main.js: the
\* message as text, then the charts of an assistant message that has them
RECURSIVE RenderEachMain(_, _, _)
RenderEachMain(w, msgs, fr) ==
    IF msgs = <<>> \/ w.threw THEN w
    ELSE LET msg == Head(msgs)
             jsonData == IF msg.role = "assistant" /\ msg.full_response # 0
                         THEN ExtractAnalyticsDataMain(fr[msg.full_response])
                         ELSE NULL
         IN  RenderEachMain(
                 IF Truthy(jsonData)
                 THEN RenderAnalysisChart(
                          AppendNode(w, msg.role, FormatMessageContent(msg.content)),
                          jsonData)
                 ELSE AppendNode(w, msg.role, FormatMessageContent(msg.content)),
                 Tail(msgs), fr)

\* UIRenderer.renderMessages of main.js
RenderMessagesMain(w, msgs, fr) ==
    IF msgs = <<>> THEN [w EXCEPT !.container = <<EmptyState>>]
    ELSE RenderEachMain([w EXCEPT !.container = <<>>], msgs, fr)

\* the change handler of #agentSelector in main.js: loadSessions is called and
\* not awaited, the session list is rendered anew only when no agent is chosen
AgentChangeMain(a) ==
    /\ userActions < MaxUserActions
    /\ a # currentAgent
    /\ userActions' = userActions + 1
    /\ currentAgent' = a
    /\ currentSessionId' = NULL
    /\ sessions' = <<>>
    /\ IF a # ""
       THEN /\ pending' = pending \cup {Request("loadSessions", a, NULL, userActions + 1)}
            /\ UNCHANGED sessionList
       ELSE /\ sessionList' = {}
            /\ UNCHANGED pending
    /\ UpdateUIState(FALSE)
    /\ UNCHANGED <<container, nextDiv, alerts, turn, wire>>
    /\ UNCHANGED <<probe, clock, timers, plots>>

\* AppController.loadSessions of main.js from the response on: the mapping of
\* the response, every session with the messages msgs, replaces AppState.sessions
LoadSessionsResponseMain(req, ok, msgs) ==
    /\ req \in pending /\ req.kind = "loadSessions"
    /\ pending' = pending \ {req}
    /\ IF ok
       THEN /\ sessions' = [s \in ServerSessions[req.agent] |-> [messages |-> msgs]]
            /\ sessionList' = ServerSessions[req.agent]
            /\ UNCHANGED alerts
       ELSE /\ alerts' = alerts + 1
            /\ UNCHANGED <<sessions, sessionList>>
    /\ UNCHANGED <<currentAgent, currentSessionId, sendBtnDisabled, inputDisabled,
                   deleteBtnShown, container, nextDiv, turn, wire, userActions>>
    /\ UNCHANGED <<probe, clock, timers, plots>>

\* AppController.selectSession of main.js: a click on a rendered session item
SelectSessionMain(sid) ==
    /\ userActions < MaxUserActions
    /\ sid \in sessionList
    /\ userActions' = userActions + 1
    /\ currentSessionId' = sid
    /\ sessionList' = DOMAIN sessions
    /\ UpdateUIState(TRUE)
    /\ IF sid \in DOMAIN sessions
       THEN LET r == RenderMessagesMain([container |-> container, nextDiv |-> nextDiv,
                                         threw |-> FALSE, clock |-> clock,
                                         timers |-> timers],
                                        sessions[sid].messages,
                                        [u \in TurnIds |-> turn[u].fullResponse])
            IN  /\ container' = r.container
                /\ nextDiv' = r.nextDiv
                /\ timers' = r.timers
       ELSE UNCHANGED <<container, nextDiv, timers>>
    /\ UNCHANGED <<currentAgent, sessions, alerts, pending, turn, wire>>
    /\ UNCHANGED <<probe, clock, plots>>

\* the finally block of sendMessage in main.js
FinallyMain(w) == [ReEnable(w) EXCEPT !.c.pc = "done"]

\* the catch block of sendMessage in main.js, and the finally block after it
CatchMain(w) == FinallyMain([w EXCEPT !.alerts = @ + 1, !.c.notes = @ + 1])

\* what ApiService.sendMessage may settle with: a parsed body with its status,
\* response and full_response (sent is whether the field is there), or a throw
Response(status, response, sent, events) ==
    [thrown |-> FALSE, status |-> status, response |-> response, sent |-> sent,
     full_response |-> events]

RequestThrows ==
    [thrown |-> TRUE, status |-> "", response |-> <<>>, sent |-> FALSE,
     full_response |-> <<>>]

SendOutcomes ==
    {Response("success", <<"a">>, FALSE, <<>>),
     Response("success", <<"a">>, TRUE, <<AnalyticsEvent("obj_summary")>>),
     Response("success", <<"a">>, TRUE, <<AnalyticsEvent("obj_badshape")>>),
     Response("success", <<>>, FALSE, <<>>),
     Response("error", <<"a">>, FALSE, <<>>),
     Response("error", <<>>, FALSE, <<>>),
     RequestThrows}

\* AppController.sendMessage of main.js up to its await: the submit of
\* #messageForm with a non-empty message while the button and the input
\* accept it.  t is the first call not made yet.
SendMessageMain(t) ==
    /\ userActions < MaxUserActions
    /\ ~sendBtnDisabled /\ ~inputDisabled
    /\ turn[t].pc = "idle" /\ \A u \in 1..(t - 1) : turn[u].pc # "idle"
    /\ currentSessionId # NULL
    /\ userActions' = userActions + 1
    /\ LET w0 == [World(t) EXCEPT !.sendBtnDisabled = TRUE, !.inputDisabled = TRUE,
                                  !.c.session = currentSessionId]
           w1 == PushMessage(w0, Message("user", UserText, 0, FALSE))
       IN  IF w1.threw
           THEN /\ Commit(CatchMain(w1))
                /\ UNCHANGED pending
           ELSE LET w2 == RenderMessagesMain(w1, w1.sessions[currentSessionId].messages,
                                             FullResponses(t, w1.c))
                IN  IF w2.threw
                    THEN /\ Commit(CatchMain(w2))
                         /\ UNCHANGED pending
                    ELSE /\ Commit([w2 EXCEPT !.c.pc = "await"])
                         /\ pending' = pending \cup
                               {Request("send", currentAgent, currentSessionId, t)}
    /\ UNCHANGED <<currentAgent, currentSessionId, sessionList, deleteBtnShown, wire>>
    /\ UNCHANGED <<probe, clock, plots>>

\* the rest of the try block of sendMessage once the response res is there.
\* The closure records the response: completed for a success status, received
\* for its response text.
AfterResponse(w, res) ==
    IF res.status = "success" /\ res.response # <<>>
    THEN LET w1 == PushMessage(w, Message("assistant", res.response,
                                          IF res.sent THEN w.t ELSE 0, FALSE))
         IN  IF w1.threw THEN CatchMain(w1)
             ELSE LET w2 == RenderMessagesMain(
                                w1, w1.sessions[currentSessionId].messages,
                                FullResponses(w1.t, w1.c))
                  IN  IF w2.threw THEN CatchMain(w2) ELSE FinallyMain(w2)
    ELSE FinallyMain([w EXCEPT !.alerts = @ + 1, !.c.notes = @ + 1])

\* AppController.sendMessage of main.js from the settling of its request on
SendResponseMain(req, res) ==
    /\ req \in pending /\ req.kind = "send"
    /\ turn[req.id].pc = "await"
    /\ pending' = pending \ {req}
    /\ IF res.thrown
       THEN Commit(CatchMain([World(req.id) EXCEPT !.c.failed = TRUE]))
       ELSE Commit(AfterResponse([World(req.id) EXCEPT
                                     !.c.completed = (res.status = "success"),
                                     !.c.received = res.response,
                                     !.c.fullResponse = res.full_response,
                                     !.c.ended = TRUE], res))
    /\ UNCHANGED <<currentAgent, currentSessionId, sessionList, deleteBtnShown, wire,
                   userActions>>
    /\ UNCHANGED <<probe, clock, plots>>

NextMain ==
    \/ \E a \in Agents \cup {""} : AgentChangeMain(a)
    \/ \E req \in pending, ok \in BOOLEAN, msgs \in ServerHistories :
          LoadSessionsResponseMain(req, ok, msgs)
    \/ \E sid \in sessionList : SelectSessionMain(sid)
    \/ \E t \in TurnIds : SendMessageMain(t)
    \/ \E req \in pending, res \in SendOutcomes : SendResponseMain(req, res)

SpecMain == Init /\ [][NextMain]_vars

----------------------------------------------------------------------------
(* SpecExtract: AnalyticsParser is handed an event list or a string *)

\* what one of the three places of an event holds
ProbeValues ==
    {Undefined, NULL, "obj_summary", "obj_badshape", "obj_other", "str_summary",
     "str_fenced", "str_trailing", "str_bad", "str_five", "str_zero", "empty", "zero"}

\* events with one place filled, and events with several places filled
ProbeEvents ==
    {Event(<<>>, v, Undefined, Undefined) : v \in ProbeValues}
        \cup {Event(<<>>, Undefined, v, Undefined) : v \in ProbeValues}
        \cup {Event(<<>>, Undefined, Undefined, v) : v \in ProbeValues}
        \cup {Event(<<>>, a, b, c) : a, b, c \in {Undefined, "obj_summary", "obj_other"}}

\* the pieces a probed string is made of: characters, objects, fenced blocks
ProbeSegments ==
    {<<tok>> : tok \in {"a", " ", "{", FenceOpen, FenceClose, JsonSummary,
                         JsonInsights, JsonOther, JsonShadow, JsonTrailing}}
        \cup {<<FenceOpen, "\n", tok, "\n", FenceClose>> :
                 tok \in {"a", JsonSummary, JsonOther, JsonShadow}}

\* the pieces the text of a candidate is made of, character by character
ProbePieces ==
    {<<"{", Quote, "a", Quote, ":">>, <<"1">>, <<Quote, ",", "}", Quote>>, <<",">>,
     <<"}">>, <<"[">>, <<"]">>, <<" ">>, <<"a">>, <<FenceOpen>>, <<FenceClose>>}

InitExtract ==
    /\ currentAgent = ""
    /\ currentSessionId = NULL
    /\ sessions = <<>>
    /\ sessionList = {}
    /\ sendBtnDisabled = TRUE
    /\ inputDisabled = TRUE
    /\ deleteBtnShown = FALSE
    /\ container = <<EmptyState>>
    /\ nextDiv = 1
    /\ alerts = 0
    /\ pending = {}
    /\ turn = [t \in TurnIds |-> IdleTurn]
    /\ wire = <<>>
    /\ userActions = 0
    /\ clock = 0
    /\ timers = <<>>
    /\ plots = <<>>
    /\ \/ \E n \in 0..MaxProbeEvents : \E events \in [1..n -> ProbeEvents] :
              probe = [NoProbe EXCEPT !.kind = "events", !.input = events]
       \/ \E n \in 0..MaxSegments : \E segs \in [1..n -> ProbeSegments] :
              probe = [NoProbe EXCEPT !.kind = "string", !.input = Flatten(segs)]
       \/ \E n \in 0..MaxPieces : \E pieces \in [1..n -> ProbePieces] :
              probe = [NoProbe EXCEPT !.kind = "text", !.input = Flatten(pieces)]

ProbeFrame ==
    UNCHANGED <<currentAgent, currentSessionId, sessions, sessionList,
                sendBtnDisabled, inputDisabled, deleteBtnShown, container, nextDiv,
                alerts, pending, turn, wire, userActions, clock, timers, plots>>

\* AnalyticsParser.extractAnalyticsData of the streaming variant is called
CallExtractAnalyticsData ==
    /\ probe.kind \in {"events", "string"} /\ probe.out = Undefined
    /\ probe' = [probe EXCEPT !.out =
                    IF probe.kind = "events" THEN ExtractAnalyticsData(probe.input)
                    ELSE ExtractFromContentString(probe.input)]
    /\ ProbeFrame

\* AnalyticsParser.extractAnalyticsData of static/js/main.js is called
CallExtractAnalyticsDataMain ==
    /\ probe.kind \in {"events", "string"} /\ probe.outMain = Undefined
    /\ probe' = [probe EXCEPT !.outMain =
                    IF probe.kind = "events" THEN ExtractAnalyticsDataMain(probe.input)
                    ELSE NULL]
    /\ ProbeFrame

\* AnalyticsParser.extractFromContentString is called with a string
CallExtractFromContentString ==
    /\ probe.kind = "string" /\ probe.outText = Undefined
    /\ probe' = [probe EXCEPT !.outText = ExtractFromContentString(probe.input)]
    /\ ProbeFrame

\* AnalyticsParser.parseAnalyticsData is called with a string
CallParseAnalyticsData ==
    /\ probe.kind = "text" /\ probe.parsed = <<>>
    /\ probe' = [probe EXCEPT !.parsed = <<ParseAnalyticsString(probe.input)>>]
    /\ ProbeFrame

NextExtract ==
    \/ CallExtractAnalyticsData
    \/ CallExtractAnalyticsDataMain
    \/ CallExtractFromContentString
    \/ CallParseAnalyticsData

SpecExtract == InitExtract /\ [][NextExtract]_vars

----------------------------------------------------------------------------
(* Properties of AnalyticsParser, of SpecExtract *)

\* the places of the events of a list, events in order, within an event
\* actions.stateDelta.analytics_output, stateDelta.analytics_output,
\* analytics_output
RECURSIVE PlacesInOrder(_)
PlacesInOrder(events) ==
    IF events = <<>> THEN <<>>
    ELSE <<Head(events).actionsStateDelta, Head(events).stateDelta,
           Head(events).analytics_output>> \o PlacesInOrder(Tail(events))

\* the parse of the first candidate that is not absent, NULL when all are
ParseOfFirstNonAbsent(events) ==
    LET present == SelectSeq(PlacesInOrder(events),
                             LAMBDA v : v \notin {Undefined, NULL})
    IN  IF present = <<>> THEN NULL ELSE ParseAnalyticsData(present[1])

\* C18: for an event list, extractAnalyticsData of both variants returns the
\* parse of the first non-absent candidate, events in order and places in
\* order, whatever that candidate is (falsy, unparseable) and whatever follows.
C18_FirstCandidateWins ==
    probe.kind = "events"
        => /\ probe.out # Undefined => probe.out = ParseOfFirstNonAbsent(probe.input)
           /\ probe.outMain # Undefined
                => probe.outMain = ParseOfFirstNonAbsent(probe.input)

----------------------------------------------------------------------------
(* Properties of the text blocks of a turn *)

Attached(id) == \E i \in DOMAIN container : container[i].id = id

HtmlOf(id) == container[CHOOSE i \in DOMAIN container : container[i].id = id].html

\* the parts turn t has received, and the message blocks it has created
PartsSeen(t) == PartsOf(turn[t].fullResponse)
BlocksOf(t) == turn[t].blocks

\* C9 as stated: for every event sequence whose parts are all text parts, the
\* turn has a single visible block after each event, and the block's content is
\* the markdown rendering of the concatenation of all text parts received so far.
C9_AsStated ==
    (turn[1].fullResponse # <<>> /\ \A i \in DOMAIN PartsSeen(1) : IsText(PartsSeen(1)[i]))
        => /\ Len(BlocksOf(1)) = 1
           /\ Attached(BlocksOf(1)[1])
           /\ HtmlOf(BlocksOf(1)[1]) = FormatMessageContent(ConcatText(PartsSeen(1)))

\* C9 amended: when all parts received are text parts, there is no block while
\* all of them are empty, and from the first non-empty one on there is exactly
\* one visible block, whose content is the markdown rendering of the
\* concatenation of all text parts received so far.
C9_CumulativeText ==
    (\A i \in DOMAIN PartsSeen(1) : IsText(PartsSeen(1)[i]))
        => IF ConcatText(PartsSeen(1)) = <<>>
           THEN BlocksOf(1) = <<>>
           ELSE /\ Len(BlocksOf(1)) = 1
                /\ Attached(BlocksOf(1)[1])
                /\ HtmlOf(BlocksOf(1)[1]) =
                       FormatMessageContent(ConcatText(PartsSeen(1)))

\* two events with one text part each have arrived, and the block shows "ab"
C9_Witness ==
    /\ Len(turn[1].fullResponse) = 2
    /\ PartsSeen(1) = <<TextPart(<<"a">>), TextPart(<<"b">>)>>
    /\ Len(BlocksOf(1)) = 1
    /\ HtmlOf(BlocksOf(1)[1]) = FormatMessageContent(<<"a", "b">>)

HasTextThenTool(parts) ==
    \E i, j \in DOMAIN parts :
        i < j /\ IsText(parts[i]) /\ parts[i].text # <<>> /\ IsTool(parts[j])

\* parts[l..r] holds no boundary that closes a run: no function response, and no
\* function call that finds text other than white space before it
OneRun(parts, l, r) ==
    \A j \in l..r :
        /\ parts[j].tag # "functionResponse"
        /\ parts[j].tag = "functionCall" => Trim(ConcatText(SubSeq(parts, l, j))) = <<>>

RECURSIVE ConcatBlocks(_)
ConcatBlocks(ids) ==
    IF ids = <<>> THEN <<>> ELSE HtmlOf(Head(ids)).src \o ConcatBlocks(Tail(ids))

\* C10 as stated: an event sequence with a tool part after some text gives more
\* than one visible block, each holding only text contiguous between boundaries.
C10_AsStated ==
    HasTextThenTool(PartsSeen(1))
        => /\ Len(BlocksOf(1)) > 1
           /\ \A b \in DOMAIN BlocksOf(1) :
                 \E l, r \in DOMAIN PartsSeen(1) :
                    /\ l <= r
                    /\ \A j \in l..r : ~IsTool(PartsSeen(1)[j])
                    /\ HtmlOf(BlocksOf(1)[b]) =
                           FormatMessageContent(ConcatText(SubSeq(PartsSeen(1), l, r)))

\* C10 amended: the blocks of a turn hold, in order and without loss, the text
\* received; each block is the rendering of the non-empty text of a stretch of
\* parts with no function response and no function call that follows text other
\* than white space within it; and text other than white space, a later tool
\* part and a later non-empty text part give more than one block.
C10_BlocksAreRuns ==
    LET parts == PartsSeen(1)
        ids == BlocksOf(1)
    IN  /\ \A b \in DOMAIN ids : Attached(ids[b])
        /\ ConcatBlocks(ids) = ConcatText(parts)
        /\ \A b \in DOMAIN ids :
              \E l, r \in DOMAIN parts :
                 /\ l <= r
                 /\ OneRun(parts, l, r)
                 /\ ConcatText(SubSeq(parts, l, r)) # <<>>
                 /\ HtmlOf(ids[b]) = FormatMessageContent(ConcatText(SubSeq(parts, l, r)))
        /\ (\E i, j, k \in DOMAIN parts :
               /\ i < j /\ j < k
               /\ IsText(parts[i]) /\ Trim(parts[i].text) # <<>>
               /\ IsTool(parts[j])
               /\ IsText(parts[k]) /\ parts[k].text # <<>>)
              => Len(ids) > 1

\* "a", a function call, "b": two blocks, "a" and "b"
C10_Witness ==
    /\ PartsSeen(1) = <<TextPart(<<"a">>), FunctionCallPart, TextPart(<<"b">>)>>
    /\ Len(BlocksOf(1)) = 2
    /\ HtmlOf(BlocksOf(1)[1]) = FormatMessageContent(<<"a">>)
    /\ HtmlOf(BlocksOf(1)[2]) = FormatMessageContent(<<"b">>)

----------------------------------------------------------------------------
(* Properties of the tool parts *)

Fired(t, callback) == Count(turn[t].calls, callback)

\* the parts a step delivers to turn t
NewParts(t) ==
    SubSeq(PartsOf(turn'[t].fullResponse), Len(PartsSeen(t)) + 1,
           Len(PartsOf(turn'[t].fullResponse)))

AllSpace(text) == \A i \in DOMAIN text : IsSpace(text[i])

RunCleared(c) == c.currentMessageDiv = NoDiv /\ c.currentContent = <<>>

RunKept(t) ==
    /\ turn'[t].currentMessageDiv = turn[t].currentMessageDiv
    /\ turn'[t].currentContent = turn[t].currentContent

\* C11 as stated: a function-call part that finds the buffer non-empty, white
\* space included, clears the open-block handle and the buffer; one that finds
\* it empty leaves both unchanged.
C11_AsStated ==
    [][NewParts(1) = <<FunctionCallPart>>
          => IF turn[1].currentContent # <<>> THEN RunCleared(turn'[1]) ELSE RunKept(1)]_vars

\* C11 amended: a function-call part that finds text other than white space in
\* the buffer clears the open-block handle and the buffer; one that finds the
\* buffer empty or holding white space only leaves both unchanged; and a
\* non-empty text part that finds no open block starts a new visible block
\* holding that text alone.
C11_ClosesOnText ==
    [][/\ NewParts(1) = <<FunctionCallPart>>
          => IF ~AllSpace(turn[1].currentContent) THEN RunCleared(turn'[1]) ELSE RunKept(1)
       /\ (/\ Len(NewParts(1)) = 1
           /\ IsText(NewParts(1)[1]) /\ NewParts(1)[1].text # <<>>
           /\ turn[1].currentMessageDiv = NoDiv)
          => /\ BlocksOf(1)' = Append(BlocksOf(1), turn'[1].currentMessageDiv)
             /\ turn'[1].currentMessageDiv \notin {container[i].id : i \in DOMAIN container}
             /\ turn'[1].currentContent = NewParts(1)[1].text]_vars

\* "a" and then a function call: the block of "a" stays, no block is open
C11_Witness ==
    /\ PartsSeen(1) = <<TextPart(<<"a">>), FunctionCallPart>>
    /\ Len(turn[1].fullResponse) = 2
    /\ RunCleared(turn[1])
    /\ Len(BlocksOf(1)) = 1
    /\ HtmlOf(BlocksOf(1)[1]) = FormatMessageContent(<<"a">>)

\* C12: after a function-response part no block is open and the buffer is
\* empty, whatever the buffer held; and an event of function-call and
\* function-response parts only creates no visible block and changes no
\* content of the message area.
C12_ToolPartsSilent ==
    [][/\ (NewParts(1) # <<>> /\ NewParts(1)[Len(NewParts(1))].tag = "functionResponse")
          => RunCleared(turn'[1])
       /\ (NewParts(1) # <<>> /\ \A i \in DOMAIN NewParts(1) : IsTool(NewParts(1)[i]))
          => /\ container' = container
             /\ BlocksOf(1)' = BlocksOf(1)]_vars

\* white space and then a function response: the block of the white space
\* stays as it was, no block is open
C12_Witness ==
    /\ PartsSeen(1) = <<TextPart(<<" ">>), FunctionResponsePart>>
    /\ RunCleared(turn[1])
    /\ Len(BlocksOf(1)) = 1
    /\ HtmlOf(BlocksOf(1)[1]) = FormatMessageContent(<<" ">>)

----------------------------------------------------------------------------
(* Properties of the message a completion stores *)

\* the position of the last of the first n parts that closes a run, 0 for
\* none: a function response, or a function call that follows text other than
\* white space received since the run-closing part before it
RECURSIVE LastCloser(_, _)
LastCloser(parts, n) ==
    IF n = 0 THEN 0
    ELSE LET k == LastCloser(parts, n - 1)
         IN  IF \/ parts[n].tag = "functionResponse"
                \/ /\ parts[n].tag = "functionCall"
                   /\ ~AllSpace(ConcatText(SubSeq(parts, k + 1, n - 1)))
             THEN n ELSE k

\* the text received since the last run-closing part
LastRunText(parts) ==
    ConcatText(SubSeq(parts, LastCloser(parts, Len(parts)) + 1, Len(parts)))

\* the assistant messages in the session of turn t
AssistantMessages(t) ==
    SelectSeq(sessions[turn[t].session].messages, LAMBDA m : m.role = "assistant")

\* C13: when the stream of a turn has ended and no analytics payload was found,
\* the session holds one assistant message of the turn, whose content is the
\* text received since the last run-closing tool part (empty when none
\* followed it) and whose full_response is the list of all events delivered.
C13_StoresLastRun ==
    (turn[1].pc = "done" /\ CompletionPayload(turn[1]) = NULL)
        => /\ Len(AssistantMessages(1)) = 1
           /\ AssistantMessages(1)[1].content = LastRunText(PartsSeen(1))
           /\ AssistantMessages(1)[1].full_response = 1
           /\ Len(turn[1].fullResponse) = Fired(1, "onEvent")
           /\ ~AssistantMessages(1)[1].isAnalytics

\* "a", a function call, a function response, "b", then the end of the stream:
\* two blocks, and the stored content is "b"
C13_Witness ==
    /\ turn[1].pc = "done"
    /\ PartsSeen(1) = <<TextPart(<<"a">>), FunctionCallPart, FunctionResponsePart,
                        TextPart(<<"b">>)>>
    /\ Len(BlocksOf(1)) = 2
    /\ Len(AssistantMessages(1)) = 1
    /\ AssistantMessages(1)[1].content = <<"b">>

----------------------------------------------------------------------------
(* Properties of the analytics decision at completion, of SpecTurn *)

\* onComplete has run in turn t
Completed(t) == Fired(t, "onComplete") = 1

\* the candidates the events of a list carry, in order
RECURSIVE CarriedCandidates(_)
CarriedCandidates(fullResponse) ==
    IF fullResponse = <<>> THEN <<>>
    ELSE LET data == FirstDefined(PossiblePaths(Head(fullResponse)))
         IN  (IF data = Undefined THEN <<>> ELSE <<data>>)
                 \o CarriedCandidates(Tail(fullResponse))

\* the text is one JSON object that has a recognized key
TextQualifies(text) ==
    LET parsed == JsonParse(text)
    IN  parsed # SyntaxError /\ IsAnalyticsData(parsed)

StartsWithProse(text) ==
    \E i \in DOMAIN text : text[i] = "a" /\ \A j \in 1..(i - 1) : IsSpace(text[j])

\* C15: when the structured extraction yields nothing, a text that begins,
\* after white space, with "{" is handed to the text extraction and its result
\* decides the branch; a text that begins with prose is stored as a plain
\* message with that text; with no structured field and the text
\* {"analysis_summary":"ok"} the turn is stored as analytics with that payload.
C15_FallbackOnBrace ==
    (Completed(1) /\ ~Truthy(ExtractAnalyticsData(turn[1].fullResponse)))
        => /\ Len(AssistantMessages(1)) = 1
           /\ StartsWithProse(turn[1].currentContent)
                => /\ ~Truthy(turn[1].jsonData)
                   /\ ~AssistantMessages(1)[1].isAnalytics
                   /\ AssistantMessages(1)[1].content = turn[1].currentContent
           /\ (~StartsWithProse(turn[1].currentContent)
                    /\ ~AllSpace(turn[1].currentContent))
                => /\ turn[1].jsonData = ExtractFromContentString(turn[1].currentContent)
                   /\ AssistantMessages(1)[1].isAnalytics = Truthy(turn[1].jsonData)
           /\ Trim(turn[1].currentContent) = <<JsonSummary>>
                => /\ turn[1].jsonData = "summary"
                   /\ AssistantMessages(1)[1].isAnalytics
                   /\ \E i \in DOMAIN container :
                          container[i].html = [fmt |-> "Analysis Summary", src |-> <<"o", "k">>]

\* no structured field, the text is the summary object after white space
C15_Witness ==
    /\ Completed(1)
    /\ CarriedCandidates(turn[1].fullResponse) = <<>>
    /\ turn[1].currentContent = <<" ", JsonSummary>>
    /\ turn[1].jsonData = "summary"

Placeholder == <<"[Analytics Chart Rendered]">>

\* C16: once onComplete has found an analytics payload, the block that was
\* open is no longer displayed, exactly one assistant message is stored, with
\* isAnalytics true, the placeholder content and the turn's event history,
\* and the renderer has been invoked after both: its blocks follow every other
\* node, and when it throws the removal and the message are already in place.
\* A message of the other branch has no isAnalytics flag and no placeholder.
C16_AnalyticsBranch ==
    Completed(1)
        => /\ Len(AssistantMessages(1)) = 1
           /\ Truthy(turn[1].jsonData)
                => /\ ~Attached(turn[1].currentMessageDiv)
                   /\ AssistantMessages(1)[1]
                        = Message("assistant", Placeholder, 1, TRUE)
                   /\ turn[1].jsonData \in {"summary", "insights"}
                        => /\ container[Len(container)].html.fmt
                                \in {"Analysis Summary", "Key Insights"}
                           /\ Fired(1, "onError") = 0
                   /\ turn[1].jsonData = "badshape" => Fired(1, "onError") = 1
           /\ ~Truthy(turn[1].jsonData)
                => /\ ~AssistantMessages(1)[1].isAnalytics
                   /\ AssistantMessages(1)[1].content # Placeholder

\* a payload found in the text of a block that was open and is displayed no more
C16_Witness ==
    /\ Completed(1)
    /\ turn[1].jsonData = "insights"
    /\ turn[1].currentMessageDiv # NoDiv
    /\ ~Attached(turn[1].currentMessageDiv)
    /\ turn[1].blocks = <<turn[1].currentMessageDiv>>

\* C17: every value onComplete treats as an analytics payload is an object
\* with at least one of the keys analysis_summary, insights,
\* visualization_hints, recommendations, whether it came from an event's
\* structured field or from the text.
C17_PayloadHasRecognizedKey ==
    (Completed(1) /\ Truthy(turn[1].jsonData))
        => /\ Payloads[turn[1].jsonData].obj
           /\ \E k \in {"analysis_summary", "insights", "visualization_hints",
                         "recommendations"} : k \in Payloads[turn[1].jsonData].keys

\* C29: when the first structured analytics field of a turn does not parse
\* and the accumulated text does not begin with "{", onComplete takes the
\* plain branch: onError is not invoked, no notification and no error block
\* is shown, the text block that was open is still displayed, and one
\* assistant message is stored, without the analytics flag, whose content is
\* the accumulated text.
C29_ParseFailureIsPlainText ==
    (/\ Completed(1)
     /\ CarriedCandidates(turn[1].fullResponse) # <<>>
     /\ ParseAnalyticsData(CarriedCandidates(turn[1].fullResponse)[1]) = NULL
     /\ ~StartsWithBrace(turn[1].currentContent))
        => /\ turn[1].jsonData = NULL
           /\ Fired(1, "onError") = 0
           /\ alerts = 0
           /\ turn[1].notes = 0
           /\ turn[1].errorBlocks = 0
           /\ \A i \in DOMAIN container : container[i].cls # "assistant error-message"
           /\ turn[1].currentMessageDiv # NoDiv => Attached(turn[1].currentMessageDiv)
           /\ Len(AssistantMessages(1)) = 1
           /\ AssistantMessages(1)[1]
                = Message("assistant", turn[1].currentContent, 1, FALSE)

\* a turn with the text "a" and an analytics field that is the string "a"
C29_Witness ==
    /\ Completed(1)
    /\ CarriedCandidates(turn[1].fullResponse) = <<"str_bad">>
    /\ turn[1].currentContent = <<"a">>
    /\ Attached(turn[1].currentMessageDiv)
    /\ AssistantMessages(1) = <<Message("assistant", <<"a">>, 1, FALSE)>>

\* C37: for the assistant message a completed turn has stored, renderMessages
\* decides as onComplete did: both find a payload or neither does, and a
\* payload found is the same one.
C37_HistoryAgreesWithLive ==
    (Completed(1) /\ Len(AssistantMessages(1)) = 1)
        => LET fromStore == HistoryPayload(AssistantMessages(1)[1])
           IN  /\ Truthy(fromStore) = Truthy(turn[1].jsonData)
               /\ Truthy(fromStore) => fromStore = turn[1].jsonData

----------------------------------------------------------------------------
(* Properties of ChartRenderer, of SpecRender *)

\* what a block shows: the title of a text or list block, "chart" for a chart
LabelOf(node) == IF node.cls = "chart-container" THEN "chart" ELSE node.html.fmt

\* the blocks a payload asks for: one per field that is present and not
\* empty, charts one per hint, in the order summary, insights, charts,
\* recommendations
BlocksAskedFor(p) ==
    (IF Payloads[p].analysis_summary.t = "string"
           /\ Payloads[p].analysis_summary.items # <<>>
     THEN <<"Analysis Summary">> ELSE <<>>)
    \o (IF Payloads[p].insights.t = "array" /\ Payloads[p].insights.items # <<>>
        THEN <<"Key Insights">> ELSE <<>>)
    \o (IF Payloads[p].visualization_hints.t = "array"
        THEN [i \in DOMAIN Payloads[p].visualization_hints.items |-> "chart"]
        ELSE <<>>)
    \o (IF Payloads[p].recommendations.t = "array"
           /\ Payloads[p].recommendations.items # <<>>
        THEN <<"Recommendations">> ELSE <<>>)

\* the step is the completion of turn t with an analytics payload
RendersNow(t) ==
    /\ Fired(t, "onComplete") = 0
    /\ Fired(t, "onComplete")' = 1
    /\ Truthy(turn'[t].jsonData)

\* the container before the renderer is invoked: the open block is removed
BeforeRender(t) ==
    SelectSeq(container, LAMBDA n : n.id # turn[t].currentMessageDiv)

\* C21: renderAnalysisChart only appends: the blocks that were in the
\* container stay, in their order, and the new blocks follow them in the
\* order summary, insights, one chart block per hint in hint order,
\* recommendations, a block only for a field that is present and not empty;
\* when a field of the wrong type makes the renderer throw, the blocks
\* appended so far are the first of that list (the error block of onError
\* follows them).
C21_AppendsInOrder ==
    [][RendersNow(1)
        => /\ Len(container') >= Len(BeforeRender(1))
           /\ SubSeq(container', 1, Len(BeforeRender(1))) = BeforeRender(1)
           /\ LET new == SelectSeq(SubSeq(container', Len(BeforeRender(1)) + 1,
                                         Len(container')),
                                  LAMBDA n : n.cls # "assistant error-message")
                  asked == BlocksAskedFor(turn'[1].jsonData)
              IN  /\ Len(new) <= Len(asked)
                  /\ \A i \in DOMAIN new : LabelOf(new[i]) = asked[i]
                  /\ Fired(1, "onError")' = 0 => Len(new) = Len(asked)
                  /\ \A i, j \in DOMAIN new :
                        (i < j /\ LabelOf(new[i]) = "chart" /\ LabelOf(new[j]) = "chart")
                            => new[i].html.src[2] < new[j].html.src[2]
                  /\ Len(timers') - Len(timers)
                        = Cardinality({i \in DOMAIN new : LabelOf(new[i]) = "chart"})]_vars

\* all four fields rendered after the user's block, the open text block gone
C21_Witness ==
    /\ Completed(1)
    /\ turn[1].jsonData = "full"
    /\ turn[1].blocks # <<>>
    /\ Len(container) = 6
    /\ container[1].cls = "user"
    /\ LabelOf(container[6]) = "Recommendations"

\* the chart blocks of the container, in order
ChartNodes == SelectSeq(container, LAMBDA n : n.cls = "chart-container")

\* C22: once the deferred calls have run, a hint whose chart_type is not
\* bar, pie or line has no plotting call, and every hint of a known
\* chart_type has exactly one.
C22_UnknownTypeNotPlotted ==
    (/\ Completed(1) /\ timers = <<>>
     /\ Truthy(turn[1].jsonData)
     /\ Payloads[turn[1].jsonData].visualization_hints.t = "array")
        => \A i \in DOMAIN Payloads[turn[1].jsonData].visualization_hints.items :
              Cardinality({k \in DOMAIN plots : plots[k].node = ChartNodes[i].id})
                  = IF Payloads[turn[1].jsonData].visualization_hints.items[i]
                         \in {"bar", "pie", "line"}
                    THEN 1 ELSE 0

----------------------------------------------------------------------------
(* Properties of the session store, of Spec *)

IsPrefix(a, b) == Len(a) <= Len(b) /\ SubSeq(b, 1, Len(a)) = a

\* C23: the message list of a session only grows by appends: in every step,
\* whichever operation takes it, the list a session had is a prefix of the
\* list it has afterwards (a deleted session has none).
C23_MessagesOnlyAppended ==
    [][\A s \in DOMAIN sessions \cap DOMAIN sessions' :
          IsPrefix(sessions[s].messages, sessions'[s].messages)]_vars

\* the event list a stored message refers to, <<>> for a message without one
EventsOf(msg) ==
    IF msg.full_response = 0 THEN <<>> ELSE turn[msg.full_response].fullResponse

\* C24: once an assistant message is in the store none of its fields changes:
\* in every step it stays as it is, and the event list its full_response
\* refers to is not extended by later records of the stream.
C24_StoredMessageFrozen ==
    [][\A s \in DOMAIN sessions \cap DOMAIN sessions' :
          \A i \in DOMAIN sessions[s].messages \cap DOMAIN sessions'[s].messages :
             sessions[s].messages[i].role = "assistant"
                => /\ sessions'[s].messages[i] = sessions[s].messages[i]
                   /\ EventsOf(sessions[s].messages[i])'
                        = EventsOf(sessions[s].messages[i])]_vars

\* C30: after onComplete or onError has fired for a turn, onEvent is not
\* invoked again for it: no later step creates a block or extends the text
\* buffer or the event history.
C30_NoEventAfterTerminal ==
    [][(Fired(1, "onComplete") + Fired(1, "onError") >= 1)
        => /\ Fired(1, "onEvent")' = Fired(1, "onEvent")
           /\ turn'[1].blocks = turn[1].blocks
           /\ turn'[1].currentContent = turn[1].currentContent
           /\ turn'[1].fullResponse = turn[1].fullResponse]_vars

----------------------------------------------------------------------------
(* Properties of parseAnalyticsData, of SpecExtract *)

\* whether position i of text lies inside a string literal
InLiteral(text, i) ==
    Cardinality({j \in 1..(i - 1) : text[j] = Quote}) % 2 = 1

\* text without its trailing commas: the commas outside string literals that
\* only white space separates from a closing brace or bracket
RECURSIVE WithoutTrailingCommas(_, _)
WithoutTrailingCommas(text, i) ==
    IF i > Len(text) THEN <<>>
    ELSE IF MatchesAt(text, i) /\ ~InLiteral(text, i)
    THEN WithoutTrailingCommas(text, i + 1)
    ELSE <<text[i]>> \o WithoutTrailingCommas(text, i + 1)

\* the only defect of text is a trailing comma
OnlyTrailingCommas(text) ==
    /\ ~JsonParseText(text).ok
    /\ JsonParseText(WithoutTrailingCommas(text, 1)).ok

HasFence(text) == \E i \in DOMAIN text : text[i] \in {FenceOpen, FenceClose}

\* C28: parseAnalyticsData of a string whose only defect is a trailing comma
\* before a closing brace or bracket returns the value of the string without
\* those commas; it returns null for a string that does not parse before or
\* after the repair; and for an object it returns the object.
C28_TrailingCommaRepaired ==
    /\ (probe.kind = "text" /\ probe.parsed # <<>> /\ ~HasFence(probe.input))
          => /\ OnlyTrailingCommas(probe.input)
                  => probe.parsed[1]
                        = JsonParseText(WithoutTrailingCommas(probe.input, 1))
             /\ (~JsonParseText(probe.input).ok
                    /\ ~JsonParseText(FixedJson(probe.input)).ok)
                  => probe.parsed[1] = Null
    /\ \A cand \in DOMAIN Candidates :
          Candidates[cand].t = "object"
              => ParseAnalyticsData(cand) = Candidates[cand].payload

----------------------------------------------------------------------------
(* Properties of the line reader, of SpecStream *)

\* the newline-terminated lines of a text
CompleteLines(text) == LET pieces == Split(text) IN SubSeq(pieces, 1, Len(pieces) - 1)

\* a line that is the marker followed by a document
WellFormed(line) == \E doc \in DOMAIN Documents : line \o <<NewLine>> = DataLine(doc)

DocOf(line) == Documents[line[Len(Marker) + 2]]

IsControl(line) == WellFormed(line) /\ DocOf(line).type \in {"error", "complete"}

\* the events of the well-formed data records before the first control record
RECURSIVE DataBeforeControl(_)
DataBeforeControl(lines) ==
    IF lines = <<>> \/ IsControl(Head(lines)) THEN <<>>
    ELSE IF WellFormed(Head(lines))
         THEN <<DocOf(Head(lines)).event>> \o DataBeforeControl(Tail(lines))
         ELSE DataBeforeControl(Tail(lines))

\* C26: the events handed to onEvent begin with the events of the
\* newline-terminated well-formed data records received before any control
\* record, each once and whole and in order, wherever the reads cut the
\* stream; when no control record has been received they are exactly those
\* events.  The piece after the last newline is kept in the buffer, unparsed.
C26_RecordsDeliveredOnce ==
    LET lines == CompleteLines(turn[1].received)
        expected == DataBeforeControl(lines)
    IN  /\ IsPrefix(expected, turn[1].fullResponse)
        /\ Fired(1, "onEvent") = Len(turn[1].fullResponse)
        /\ (\A i \in DOMAIN lines : ~IsControl(lines[i]))
              => turn[1].fullResponse = expected
        /\ turn[1].buffer = Split(turn[1].received)[Len(Split(turn[1].received))]

\* two data records have been delivered, the second one after a read that
\* ended inside its marker, and the next line is cut inside its document
C26_Witness ==
    /\ turn[1].received = DataLine("text") \o DataLine("text") \o Marker \o <<"{", "text">>
    /\ turn[1].buffer = Marker \o <<"{", "text">>
    /\ Len(turn[1].fullResponse) = 2
    /\ turn[1].calls = <<"onEvent", "onEvent">>

\* the lines this step has completed
NewLines ==
    SubSeq(CompleteLines(turn[1].received'),
           Len(CompleteLines(turn[1].received)) + 1,
           Len(CompleteLines(turn[1].received')))

\* C27: a read that completes only lines without the marker, with an empty
\* payload or with a document that does not parse invokes no callback and
\* leaves the event history, the open run and the reader as they are; and
\* such lines do not stop the first well-formed record that follows them in
\* the read from being processed.
C27_IgnoredLinesHarmless ==
    [][LET new == NewLines
           wf == SelectSeq(new, WellFormed)
       IN  /\ (new # <<>> /\ wf = <<>>)
                => /\ turn'[1].calls = turn[1].calls
                   /\ turn'[1].fullResponse = turn[1].fullResponse
                   /\ turn'[1].currentContent = turn[1].currentContent
                   /\ turn'[1].currentMessageDiv = turn[1].currentMessageDiv
                   /\ container' = container
                   /\ turn'[1].pc = "read"
           /\ (wf # <<>> /\ ~IsControl(wf[1]))
                => /\ Fired(1, "onEvent")' >= Fired(1, "onEvent") + 1
                   /\ turn'[1].fullResponse[Len(turn[1].fullResponse) + 1]
                        = DocOf(wf[1]).event
           /\ (wf # <<>> /\ IsControl(wf[1]) /\ DocOf(wf[1]).type = "error")
                => Fired(1, "onError")' = Fired(1, "onError") + 1
           /\ (wf # <<>> /\ IsControl(wf[1]) /\ DocOf(wf[1]).type = "complete"
                  /\ ~turn[1].completed)
                => Fired(1, "onComplete")' = Fired(1, "onComplete") + 1]_vars

\* a line with an empty payload and a record that does not parse have been
\* received, then a data record, which has been delivered
C27_Witness ==
    /\ turn[1].received = EmptyPayloadLine \o MalformedLine \o DataLine("text")
    /\ turn[1].calls = <<"onEvent">>
    /\ turn[1].pc = "read"

\* the turn of SpecStream when its stream opens
StreamStart ==
    [t |-> 1, c |-> [IdleTurn EXCEPT !.pc = "read", !.session = "s1"],
     sessions |-> [s \in {"s1"} |->
                      [messages |-> <<Message("user", UserText, 0, FALSE)>>]],
     container |-> <<Node(1, "user", FormatMessageContent(UserText))>>,
     nextDiv |-> 2, sendBtnDisabled |-> TRUE, inputDisabled |-> TRUE, alerts |-> 0,
     threw |-> FALSE, clock |-> 0, timers |-> <<>>]

\* the closure after a stream that delivers text in a single read
ReadAtOnce(text) == ProcessChunk(StreamStart, text).c

\* C31: while the stream is open, the callbacks invoked so far, and the
\* events handed to onEvent, are those that a single read of everything
\* received so far would have invoked: they do not depend on where the reads
\* cut the stream.
C31_ChunkingIndependent ==
    (turn[1].pc = "read" /\ turn[1].received # <<>>)
        => /\ turn[1].calls = ReadAtOnce(turn[1].received).calls
           /\ turn[1].fullResponse = ReadAtOnce(turn[1].received).fullResponse

----------------------------------------------------------------------------
(* Properties of turns among the user's other actions, of Spec *)

\* C32: an assistant message stored by a turn is in the message list of the
\* session that received the turn's user message, whatever the user selected,
\* deleted or changed while the stream was in flight.
C32_AssistantJoinsUserSession ==
    \A s \in DOMAIN sessions : \A i \in DOMAIN sessions[s].messages :
        LET m == sessions[s].messages[i]
        IN  (m.role = "assistant" /\ m.full_response \in TurnIds)
                => s = turn[m.full_response].session

\* C34: whenever the send button or the message input is enabled, a session
\* is selected; a turn that ends after its session was deleted or the agent
\* was changed does not enable them.
C34_EnabledOnlyWithSession ==
    (~sendBtnDisabled \/ ~inputDisabled) => currentSessionId # NULL

----------------------------------------------------------------------------
(* Properties of session create and delete, of SpecSessions *)

\* C33: the current session id is null or a key of the session mapping, in
\* every interleaving of agent changes, session-list loads, selections,
\* creations and deletions.
C33_CurrentSessionKnown ==
    currentSessionId = NULL \/ currentSessionId \in DOMAIN sessions

\* the requests of a kind whose response is handled in this step
Answered(kind) == {req \in pending \ pending' : req.kind = kind}

\* C35: a session-list response that was requested for an agent other than
\* the one selected now does not touch the session mapping or the session
\* list, so that after all responses have arrived the mapping holds the
\* sessions of the selected agent.
C35_LateListIgnored ==
    [][\A req \in Answered("loadSessions") :
          req.agent # currentAgent
              => sessions' = sessions /\ sessionList' = sessionList]_vars

\* the step leaves the store as it is and shows one notification
FailedAction ==
    /\ sessions' = sessions
    /\ currentSessionId' = currentSessionId
    /\ alerts' = alerts + 1

\* C25: the response of a create or delete call is handled in one of two
\* ways.  On failure the session mapping and the current session id stay as
\* they are and exactly one notification is shown.  On success of a delete
\* the session the call was made for is no longer in the mapping and the
\* current session id is null; on success of a create the new session is in
\* the mapping; no notification is shown.
C25_CreateDeleteOutcome ==
    [][/\ \A req \in Answered("delete") :
             \/ FailedAction
             \/ /\ req.sid \notin DOMAIN sessions'
                /\ currentSessionId' = NULL
                /\ alerts' = alerts
       /\ \A req \in Answered("create") :
             \/ FailedAction
             \/ /\ req.sid \in DOMAIN sessions'
                /\ alerts' = alerts]_vars

----------------------------------------------------------------------------
(* Properties of the way a turn ends *)

\* C2: in every turn exactly one of onComplete and onError fires, exactly once:
\* the two never fire more than once together, and once the turn is over one
\* of them has fired.
C2_OneTerminalCallback ==
    \A t \in TurnIds :
        /\ Fired(t, "onComplete") + Fired(t, "onError") <= 1
        /\ turn[t].pc = "done" => Fired(t, "onComplete") + Fired(t, "onError") = 1

\* C3: once onError has fired in a turn, no step appends an assistant message
\* for that turn, and the user's message of the turn stays in its session.
C3_NoAssistantAfterError ==
    [][\A t \in TurnIds :
          Fired(t, "onError") > 0
              => /\ turn'[t].appended = turn[t].appended
                 /\ turn[t].session \in DOMAIN sessions'
                 /\ Count(sessions'[turn[t].session].messages,
                          Message("user", UserText, 0, FALSE)) > 0]_vars

\* C4: a turn appends at most one assistant message; exactly one when its
\* stream has ended and no error occurred; none when onError has fired.
C4_AssistantMessages ==
    \A t \in TurnIds :
        /\ turn[t].appended <= 1
        /\ (turn[t].ended /\ Fired(t, "onError") = 0) => turn[t].appended = 1
        /\ Fired(t, "onError") > 0 => turn[t].appended = 0

InFlight(t) == turn[t].pc \in {"fetch", "read"}

\* C5: while a turn is in flight the send button and the input are disabled,
\* and no second turn is in flight, whatever the user does in between.
C5_DisabledWhileInFlight ==
    /\ \A t \in TurnIds : InFlight(t) => sendBtnDisabled /\ inputDisabled
    /\ Cardinality({t \in TurnIds : InFlight(t)}) <= 1

\* C6: a turn that is over has re-enabled the send button and the input
\* exactly once, and no turn re-enables them twice.
C6_ReEnabledOnce ==
    \A t \in TurnIds :
        /\ turn[t].enables <= 1
        /\ turn[t].pc = "done" => turn[t].enables = 1

\* C7: when the stream of a turn has ended or failed and nothing else is left
\* to run, the send button and the input are enabled.
C7_EnabledAtRest ==
    (turn[1].pc = "done" /\ ~ENABLED NextStream)
        => ~sendBtnDisabled /\ ~inputDisabled

\* C8: a turn whose request or read failed has one error block, one
\* notification and no assistant message.
C8_TransportFailure ==
    \A t \in TurnIds :
        turn[t].failed
            => /\ turn[t].errorBlocks = 1
               /\ turn[t].notes = 1
               /\ turn[t].appended = 0

----------------------------------------------------------------------------
(* Properties of the chart containers, of SpecHistory *)

\* the positions of the chart containers in the message area
ChartPositions == {i \in DOMAIN container : container[i].cls = "chart-container"}

\* C38: the chart containers present in the message area have pairwise
\* distinct ids, and no container is drawn into by the deferred calls of two
\* charts, also when several analytics messages are rendered within one
\* clock tick and when the area is rendered again before a deferred call runs.
C38_ChartIdsDistinct ==
    /\ \A i, j \in ChartPositions :
          i # j => container[i].html.src # container[j].html.src
    /\ \A k, m \in DOMAIN plots : k # m => plots[k].node # plots[m].node

----------------------------------------------------------------------------
(* Properties of the chat area among the user's other actions, of Spec *)

\* the history requests whose response is handled in this step
HistoryAnswered == {req \in pending \ pending' : req.kind = "session"}

\* C36: a history response for a session that is not the selected one any
\* more leaves the chat area as it is, and no history response removes the
\* message blocks of a turn in flight, so that once all fetches have returned
\* the chat area shows the selected session.
C36_LateHistoryIgnored ==
    [][\A req \in HistoryAnswered :
          /\ req.sid # currentSessionId => container' = container
          /\ \A t \in TurnIds :
                InFlight(t) =>
                    \A i \in DOMAIN turn[t].blocks :
                        Attached(turn[t].blocks[i]) => Attached(turn[t].blocks[i])']_vars

----------------------------------------------------------------------------
(* Properties of sendMessage in static/js/main.js, of SpecMain *)

\* call t of sendMessage finishes in this step
FinishesMain(t) == turn[t].pc # "done" /\ turn'[t].pc = "done"

\* the user message of call t is in the list of the session it was sent in
UserMessageStored(t) ==
    /\ turn[t].session \in DOMAIN sessions
    /\ \E i \in DOMAIN sessions[turn[t].session].messages :
          sessions[turn[t].session].messages[i] = Message("user", UserText, 0, FALSE)

\* the step appends an assistant message for call t
AppendsAssistant(t) == turn'[t].appended > turn[t].appended

\* the response of call t had a success status and a non-empty response
SuccessNonEmpty(t) ==
    turn[t].completed /\ turn[t].received # <<>> /\ ~turn[t].failed

\* C39: in the non-streaming variant every sendMessage call that passes the
\* guard leaves the send button and the input enabled when it finishes,
\* whatever the outcome of the request; an assistant message is appended only
\* for a success response with a non-empty response; and the user message is
\* in the session's list when the call finishes.
C39_SendMessageMainOutcomes ==
    [][\A t \in TurnIds :
          /\ FinishesMain(t) =>
                 /\ ~sendBtnDisabled' /\ ~inputDisabled'
                 /\ UserMessageStored(t)'
          /\ AppendsAssistant(t) => SuccessNonEmpty(t)']_vars


====
